---- MODULE Spec2Model ----
(***************************************************************************)
(* Model of the tycho-indexer extractor pipeline:                          *)
(*   - ExtractorRunner / ExtractorHandle   (extractor/runner.rs)           *)
(*   - AmbientContractExtractor            (extractor/evm/ambient.rs)      *)
(*   - NativeContractExtractor             (extractor/evm/native.rs)       *)
(* The runner is one task that multiplexes a control channel and the       *)
(* upstream stream and fans the extractor's messages out to subscribers.   *)
(***************************************************************************)
EXTENDS Integers, Sequences, FiniteSets, TLC

\* ------------------------------------------------------------------ bounds
MaxChans == 3       \* subscriber channels ever created through the handle
MaxItems == 2       \* items the runner takes from the upstream stream
MaxCalls == 3       \* handler calls made on the extractor on its own
MaxBlock == 2       \* block identities 1..MaxBlock
MaxCursor == 3      \* cursor values 1..MaxCursor (0 is the empty cursor)
MaxTx == 2          \* transactions in one block payload
MaxComp == 1        \* protocol component ids 1..MaxComp
MaxBatch == 3       \* sync_batch_size 0..MaxBatch
MaxHeight == 8      \* chain head 0..MaxHeight

\* ------------------------------------------------------- program constants
ControlCapacity == 1      \* mpsc::channel(1) of the control channel
SubscriberCapacity == 1   \* mpsc::channel(1) of every subscriber channel

Blocks == 1..MaxBlock
Cursors == 1..MaxCursor
EmptyCursor == 0          \* Vec::new()
NoBlock == 0              \* Option<Block>::None
Chans == 1..MaxChans

VARIABLES
    \* --- extractor (ambient.rs / native.rs)
    ext,                    \* "new" | "ready" | "setup_error" | "failed"
    cursor,                 \* Inner.cursor
    last_processed_block,   \* Inner.last_processed_block
    calls,                  \* number of calls made to each gateway method
    \* --- runner (runner.rs)
    pc,                     \* "idle" | "select" | "handling" | "matching" | "fanout" | "done"
    result,                 \* what the spawned task returned ("running" before)
    control,                \* control channel buffer
    handlesAlive,           \* some ExtractorHandle (control_tx) still exists
    subscriptions,          \* SubscriptionsMap: id -> channel
    roundOrder,             \* ids still to be visited by the fan-out loop
    to_remove,              \* propagate_msg's to_remove
    streamReady,            \* substreams.next() has an item ready
    streamTaken,            \* items taken from the stream so far
    inflight,               \* stream item taken from the stream, until matched
    ret,                    \* what the handler returned, "-" once matched
    \* --- subscriber channels
    chan,                   \* per channel: buf, closed, received, regAt
    nextChan,               \* next channel the handle creates
    \* --- history
    produced,               \* messages the extractor returned as Some(msg)
    issued,                 \* subscriber ids issued so far
    lastOp,                 \* last call on the extractor: [op, input, ret, call, delta]
    persisted,              \* cursor the gateway holds for the extractor
    upstream,               \* cursor of the last item the upstream delivered
    journal,                \* per handled stream item: gateway write, message
    \* --- the Postgres gateways and their store
    store,                  \* rows and cursor the gateways have committed
    snaps,                  \* per block: the store as its forward left it
    gwOp,                   \* last call on a Postgres gateway and its result
    \* --- one forward of a gateway, seen as the storage operations it issues
    tokens,                 \* token addresses the storage holds
    syncBatch,              \* sync_batch_size of the gateway
    adv,                    \* the forward made: input, operations issued, result
    cache,                  \* CachedGateway: transactions recorded, rows made durable
    \* --- handle_tick_scoped_data step by step, with a reader of the state
    inner,                  \* Mutex<Inner>: cursor, last_processed_block, last_report_block_number
    tk,                     \* the forward in progress: position, input, locals
    seen,                   \* what a reader found under the lock
    \* --- aggregation of a block's updates
    agg,                    \* tx_updates given to aggregate_updates, and its result
    \* --- block synchronizer of the client
    sync,                   \* per stream status and misses, expected height, last feed message
    \* --- PostgresGateway, protocol tables
    pg,                     \* protocol_type and protocol_state rows, last call and its result
    \* --- report_progress over forwards and reverts
    rp                      \* Inner's report fields, the block handled, the two head reads

extVars == <<ext, cursor, last_processed_block, calls>>
runVars == <<pc, result, control, handlesAlive, subscriptions, roundOrder,
             to_remove, streamReady, streamTaken, inflight, ret>>
chanVars == <<chan, nextChan>>
histVars == <<produced, issued, lastOp>>
storeVars == <<store, snaps, gwOp>>
advVars == <<tokens, syncBatch, adv, cache>>
tickVars == <<inner, tk, seen>>
lateVars == <<pg, rp>>
moreVars == <<advVars, tickVars, agg, sync, lateVars>>
auxVars == <<persisted, upstream, journal, storeVars, moreVars>>
vars == <<extVars, runVars, chanVars, histVars, auxVars>>

\* ------------------------------------------------------------------ values
NoItem == [type |-> "None", kind |-> "none", block |-> 0, cursor |-> 0]

\* BlockResponse::New(data): how the payload decodes / validates
PayloadKinds == {"ok", "empty", "undecodable", "unaggregatable"}
\* BlockResponse::Undo(signal)
UndoKinds == {"ok", "no_block_ref", "bad_hash"}

NewItems == [type : {"New"}, kind : PayloadKinds, block : Blocks, cursor : Cursors]
UndoItems == [type : {"Undo"}, kind : UndoKinds, block : Blocks, cursor : Cursors]
\* Some(Err(err)) and None of substreams.next()
ErrItem == [type |-> "Err", kind |-> "none", block |-> 0, cursor |-> 0]
EndItem == [type |-> "End", kind |-> "none", block |-> 0, cursor |-> 0]
StreamItems == NewItems \cup UndoItems \cup {ErrItem, EndItem}

\* answers of gateway.get_cursor()
CursorAnswers ==
    {[tag |-> "NotFound", cursor |-> EmptyCursor],
     [tag |-> "Other", cursor |-> EmptyCursor]}
    \cup [tag : {"Ok"}, cursor : Cursors]

\* the delta gateway.revert returns: does it carry account/state updates,
\* does it carry component balances
Deltas == [updates : BOOLEAN, balances : BOOLEAN]

GatewayResults == {"Ok", "StorageError"}

StopMsg == [type |-> "Stop", chan |-> 0]
SubscribeMsg(c) == [type |-> "Subscribe", chan |-> c]

\* HashMap::new()
NoSubscriptions == [i \in {} |-> 0]

FreshChan == [buf |-> <<>>, closed |-> FALSE, received |-> <<>>, regAt |-> 0]

\* all orders in which a HashMap may iterate over the keys S
Orders(S) ==
    {s \in [1..Cardinality(S) -> S] : \A i, j \in 1..Cardinality(S) : s[i] = s[j] => i = j}

\* everything that was ever put into channel c
Sent(c) == chan[c].received \o chan[c].buf

RECURSIVE Count(_, _)
Count(m, s) == IF s = <<>> THEN 0
               ELSE (IF Head(s) = m THEN 1 ELSE 0) + Count(m, Tail(s))

\* arguments of a call to the gateway: forward(changes, new_cursor) carries
\* the block of the changes, revert(current, to, new_cursor) the two hashes
NoCall == [method |-> "none", current |-> NoBlock, block |-> NoBlock, cursor |-> EmptyCursor]
ForwardCall(item) ==
    [method |-> "forward", current |-> NoBlock, block |-> item.block, cursor |-> item.cursor]
RevertCall(item, lpb) ==
    [method |-> "revert", current |-> lpb, block |-> item.block, cursor |-> item.cursor]
NoDelta == [updates |-> FALSE, balances |-> FALSE]

NoOp == [op |-> "none", input |-> NoItem, ret |-> "-", call |-> NoCall, delta |-> NoDelta]

NoCalls == [get_cursor |-> 0, ensure_protocol_types |-> 0, forward |-> 0, revert |-> 0]

\* ------------------------------------------------------- gateway: values
Components == 1..MaxComp
\* a transaction is named by its block and its index in the block
TxIds == Blocks \X (1..MaxTx)
\* a row of protocol_state: component and modify_tx
StateRows == [comp : Components, tx : TxIds]

\* one entry of txs_with_update: new_protocol_components and protocol_states
\* of the transaction, by component id
TxUpdates == [creates : SUBSET Components, deltas : SUBSET Components]
NoTxUpdate == [creates |-> {}, deltas |-> {}]
\* evm::BlockEntityChanges together with the cursor it is delivered with
Changes == [block : Blocks, cursor : Cursors, txs : [1..MaxTx -> TxUpdates]]
NoChanges == [block |-> NoBlock, cursor |-> EmptyCursor, txs |-> [i \in 1..MaxTx |-> NoTxUpdate]]

\* the tables: protocol_state is a bag of rows, keyed tells whether the
\* schema puts a unique key on its rows
EmptyStore(k) ==
    [keyed |-> k, blocks |-> {}, txs |-> {}, components |-> {},
     states |-> [r \in StateRows |-> 0], cursor |-> EmptyCursor]
NoSnaps == [b \in {} |-> EmptyStore(FALSE)]
NoGwOp == [n |-> 0, op |-> "none", changes |-> NoChanges, to |-> NoBlock,
           cursor |-> EmptyCursor, ret |-> "-"]

\* --- values of the forward, seen as storage operations
TokenAddrs == {"t1", "t2"}
\* one transaction of a block: the components it creates (none or one, a
\* component being the set of its tokens), whether it carries a state /
\* account delta, and whether it carries balances
FwdTxs == [comps : {{}} \cup {{T} : T \in SUBSET TokenAddrs \ {{}}}, delta : BOOLEAN,
           balances : BOOLEAN]
FwdChanges == [txs : [1..MaxTx -> FwdTxs]]
NoFwdChanges == [txs |-> [i \in 1..MaxTx |-> [comps |-> {}, delta |-> FALSE,
                                               balances |-> FALSE]]]
\* one call on the storage or on the token pre-processor
Call(op, tx, toks, seq, batch) ==
    [op |-> op, tx |-> tx, toks |-> toks, seq |-> seq, batch |-> batch]
NoAdv == [op |-> "none", changes |-> NoFwdChanges, syncing |-> FALSE,
          known |-> {}, new |-> <<>>, ops |-> <<>>, ret |-> "-", failed |-> "none"]
NoCache == [n |-> 0, pending |-> <<>>, blocks |-> {}, cursor |-> EmptyCursor,
            syncing |-> FALSE, flushed |-> FALSE]

AdvIdle ==
    /\ tokens = {}
    /\ syncBatch = 0
    /\ adv = NoAdv
    /\ cache = NoCache

NoInner == [cursor |-> EmptyCursor, last_processed_block |-> NoBlock,
            last_report_block_number |-> 0]
NoTk == [pc |-> "idle"]
NoSeen == [at |-> "never"]
TickIdle ==
    /\ inner = NoInner
    /\ tk = NoTk
    /\ seen = NoSeen

NoAgg == [op |-> "none"]
NoSync == [op |-> "none"]
NoPg == [op |-> "none"]
NoRp == [op |-> "none"]
LateIdle ==
    /\ pg = NoPg
    /\ rp = NoRp

\* the parts of the state a specification does not use stay as they are
MoreIdle ==
    /\ AdvIdle
    /\ TickIdle
    /\ agg = NoAgg
    /\ sync = NoSync
    /\ LateIdle

\* ------------------------------------------------- extractor: construction
\* AmbientContractExtractor::new / NativeContractExtractor::new: the match on
\* gateway.get_cursor()
NewFails(ans) == ans.tag \notin {"NotFound", "Ok"}
\* variant: the stored cursor is dropped
NewCursorAlwaysEmpty(ans) == EmptyCursor
NewCursor(ans) == IF ans.tag = "Ok" THEN ans.cursor ELSE EmptyCursor
\* res.ensure_protocol_types().await is reached
NewEnsures(ans) == ~NewFails(ans)

New ==
    /\ ext = "new"
    /\ \E ans \in CursorAnswers :
         /\ calls' = [calls EXCEPT !.get_cursor = @ + 1,
                                   !.ensure_protocol_types =
                                       IF NewEnsures(ans) THEN @ + 1 ELSE @]
         /\ IF NewFails(ans)
            THEN /\ ext' = "setup_error"
                 /\ UNCHANGED <<cursor, last_processed_block>>
                 /\ lastOp' = [op |-> "new", input |-> ans, ret |-> "Setup",
                               call |-> NoCall, delta |-> NoDelta]
            ELSE /\ ext' = "ready"
                 /\ cursor' = NewCursor(ans)
                 /\ last_processed_block' = NoBlock
                 /\ lastOp' = [op |-> "new", input |-> ans, ret |-> "Ok",
                               call |-> NoCall, delta |-> NoDelta]
         /\ persisted' = IF ans.tag = "Ok" THEN ans.cursor ELSE persisted
         /\ upstream' = IF ans.tag = "Ok" THEN ans.cursor ELSE upstream
    /\ UNCHANGED <<runVars, chanVars, produced, issued, journal, storeVars, moreVars>>

\* --------------------------------------------- extractor: handle_tick_scoped_data
\* the payload passed decode and the validating conversion (not Empty, no error)
TickValid(item) == item.kind \in {"ok", "unaggregatable"}
\* gateway.upsert_contract (vm) / gateway.advance (native) is called
ForwardCalled(item) == TickValid(item)
\* variant: an Empty payload leaves the cursor alone
CursorAfterTickSkipEmpty(item, gw, cur) ==
    IF TickValid(item) /\ gw = "Ok" THEN item.cursor ELSE cur
CursorAfterTick(item, gw, cur) ==
    IF item.kind = "empty" THEN item.cursor
    ELSE IF TickValid(item) /\ gw = "Ok" THEN item.cursor
    ELSE cur
\* variant: last_processed_block is not updated
BlockAfterTickKeep(item, gw, lpb) == lpb
BlockAfterTick(item, gw, lpb) ==
    IF TickValid(item) /\ gw = "Ok" THEN item.block ELSE lpb
\* variant: the result of the gateway write is not looked at
TickReturnDespiteStorageError(item, gw) ==
    CASE item.kind = "undecodable" -> "DecodeError"
      [] item.kind = "empty" -> "None"
      [] item.kind = "unaggregatable" -> "AggregateError"
      [] OTHER -> "Some"
TickReturn(item, gw) ==
    CASE item.kind = "undecodable" -> "DecodeError"
      [] item.kind = "empty" -> "None"
      [] TickValid(item) /\ gw # "Ok" -> gw
      [] item.kind = "unaggregatable" /\ gw = "Ok" -> "AggregateError"
      [] OTHER -> "Some"

\* ------------------------------------------------------ extractor: handle_revert
\* variant: the revert is not skipped when there is no current block
RevertCalledWithoutBlock(item, lpb) == item.kind = "ok"
RevertCalled(item, lpb) == item.kind = "ok" /\ lpb # NoBlock
\* variant: the in-memory cursor is not rewound
CursorAfterRevertKeep(item, lpb, gw, cur) == cur
CursorAfterRevert(item, lpb, gw, cur) ==
    IF RevertCalled(item, lpb) /\ gw = "Ok" THEN item.cursor ELSE cur
\* variant: last_processed_block is set back to the last valid block
BlockAfterRevertRewind(item, lpb, gw) ==
    IF RevertCalled(item, lpb) /\ gw = "Ok" THEN item.block ELSE lpb
\* handle_revert has no update_last_processed_block
BlockAfterRevert(item, lpb, gw) == lpb
\* variant: a failed gateway.revert is swallowed
RevertReturnSwallowsError(item, lpb, gw, delta) ==
    CASE item.kind # "ok" -> "DecodeError"
      [] item.kind = "ok" /\ lpb = NoBlock -> "None"
      [] OTHER -> IF gw = "Ok" /\ delta.updates THEN "Some" ELSE "None"
\* vm: !changes.account_updates.is_empty(); native: !changes.state_updates.is_empty()
RevertReturn(item, lpb, gw, delta) ==
    CASE item.kind # "ok" -> "DecodeError"
      [] item.kind = "ok" /\ lpb = NoBlock -> "None"
      [] RevertCalled(item, lpb) /\ gw # "Ok" -> gw
      [] OTHER -> IF delta.updates THEN "Some" ELSE "None"
\* what the call of handle_revert ends in: the value the body returns, or,
\* in the vm flavour, the panic of the span field
\* inp.last_valid_block.as_ref().unwrap() when the signal has no block and
\* the span is enabled
RevertOutcomes(item, lpb, gw, delta) ==
    IF item.kind = "no_block_ref"
    THEN {RevertReturn(item, lpb, gw, delta), "Panic"}
    ELSE {RevertReturn(item, lpb, gw, delta)}

\* the gateway's forward and revert both end with save_cursor(new_cursor)
PersistedAfterTick(item, gw, p) ==
    IF ForwardCalled(item) /\ gw = "Ok" THEN item.cursor ELSE p
PersistedAfterRevert(item, lpb, gw, p) ==
    IF RevertCalled(item, lpb) /\ gw = "Ok" THEN item.cursor ELSE p

\* the upstream delivers its items in order: a Forward carries a cursor past
\* the last one delivered, an Undo names an earlier cursor as the last valid
InUpstreamOrder(item, up) ==
    IF item.type = "New" THEN item.cursor > up ELSE item.cursor < up

\* the runner stops calling the extractor once a handler returned an error
ExtAfterReturn(r) == IF r \in {"Some", "None"} THEN "ready" ELSE "failed"

\* handle_tick_scoped_data called with the next Forward of the stream
Tick ==
    /\ ext = "ready"
    /\ streamTaken < MaxCalls
    /\ \E item \in NewItems, gw \in GatewayResults :
         /\ InUpstreamOrder(item, upstream)
         /\ calls' = [calls EXCEPT !.forward = IF ForwardCalled(item) THEN @ + 1 ELSE @]
         /\ cursor' = CursorAfterTick(item, gw, cursor)
         /\ last_processed_block' = BlockAfterTick(item, gw, last_processed_block)
         /\ ext' = ExtAfterReturn(TickReturn(item, gw))
         /\ lastOp' = [op |-> "tick", input |-> item, ret |-> TickReturn(item, gw),
                       call |-> IF ForwardCalled(item) THEN ForwardCall(item) ELSE NoCall,
                       delta |-> NoDelta]
         /\ persisted' = PersistedAfterTick(item, gw, persisted)
         /\ upstream' = item.cursor
    /\ streamTaken' = streamTaken + 1
    /\ UNCHANGED <<pc, result, control, handlesAlive, subscriptions, roundOrder,
                   to_remove, streamReady, inflight, ret, chanVars, produced, issued,
                   journal, storeVars, moreVars>>

\* handle_revert called with the next Undo of the stream
Revert ==
    /\ ext = "ready"
    /\ streamTaken < MaxCalls
    /\ \E item \in UndoItems, gw \in GatewayResults, delta \in Deltas :
         \E r \in RevertOutcomes(item, last_processed_block, gw, delta) :
         LET called == RevertCalled(item, last_processed_block)
         IN  /\ InUpstreamOrder(item, upstream)
             /\ last_processed_block' = BlockAfterRevert(item, last_processed_block, gw)
             /\ calls' = [calls EXCEPT !.revert = IF called THEN @ + 1 ELSE @]
             /\ cursor' = CursorAfterRevert(item, last_processed_block, gw, cursor)
             /\ ext' = ExtAfterReturn(r)
             /\ lastOp' = [op |-> "revert", input |-> item, ret |-> r,
                           call |-> IF called THEN RevertCall(item, last_processed_block)
                                    ELSE NoCall,
                           delta |-> IF called /\ gw = "Ok" THEN delta ELSE NoDelta]
             /\ persisted' = PersistedAfterRevert(item, last_processed_block, gw, persisted)
             /\ upstream' = item.cursor
    /\ streamTaken' = streamTaken + 1
    /\ UNCHANGED <<pc, result, control, handlesAlive,
                   subscriptions, roundOrder, to_remove, streamReady, inflight,
                   ret, chanVars, produced, issued, journal, storeVars, moreVars>>

\* the extractor on its own: construction, then the handlers called in
\* stream order
InitExtractor ==
    /\ ext = "new"
    /\ cursor = EmptyCursor
    /\ last_processed_block = NoBlock
    /\ calls = NoCalls
    /\ pc = "idle"
    /\ result = "running"
    /\ control = <<>>
    /\ handlesAlive = FALSE
    /\ subscriptions = NoSubscriptions
    /\ roundOrder = <<>>
    /\ to_remove = {}
    /\ streamReady = FALSE
    /\ streamTaken = 0
    /\ inflight = NoItem
    /\ ret = "-"
    /\ chan = [c \in Chans |-> FreshChan]
    /\ nextChan = 1
    /\ produced = 0
    /\ issued = {}
    /\ lastOp = NoOp
    /\ persisted = EmptyCursor
    /\ upstream = EmptyCursor
    /\ journal = <<>>
    /\ store = EmptyStore(FALSE)
    /\ snaps = NoSnaps
    /\ gwOp = NoGwOp
    /\ MoreIdle

NextExtractor ==
    \/ New
    \/ Tick
    \/ Revert

SpecExtractor == InitExtractor /\ [][NextExtractor]_vars

\* ------------------------------------------------------------------ handle
\* ExtractorHandle::subscribe: creates a channel of capacity 1 and sends its
\* sender over the control channel (waits while the control channel is full)
HandleSubscribe ==
    /\ handlesAlive
    /\ pc # "done"
    /\ Len(control) < ControlCapacity
    /\ nextChan <= MaxChans
    /\ control' = Append(control, SubscribeMsg(nextChan))
    /\ nextChan' = nextChan + 1
    /\ UNCHANGED <<extVars, pc, result, handlesAlive, subscriptions, roundOrder,
                   to_remove, streamReady, streamTaken, inflight, ret, chan,
                   histVars>>
    /\ UNCHANGED auxVars

\* ExtractorHandle::stop
HandleStop ==
    /\ handlesAlive
    /\ pc # "done"
    /\ Len(control) < ControlCapacity
    /\ control' = Append(control, StopMsg)
    /\ UNCHANGED <<extVars, pc, result, handlesAlive, subscriptions, roundOrder,
                   to_remove, streamReady, streamTaken, inflight, ret, chanVars,
                   histVars>>
    /\ UNCHANGED auxVars

\* every clone of the handle is dropped: the control channel is closed
DropHandles ==
    /\ handlesAlive
    /\ handlesAlive' = FALSE
    /\ UNCHANGED <<extVars, pc, result, control, subscriptions, roundOrder,
                   to_remove, streamReady, streamTaken, inflight, ret, chanVars,
                   histVars>>
    /\ UNCHANGED auxVars

\* ------------------------------------------------------------- subscribers
\* the subscriber reads its Receiver
SubscriberRecv(c) ==
    /\ c < nextChan
    /\ ~chan[c].closed
    /\ chan[c].buf # <<>>
    /\ chan' = [chan EXCEPT ![c].buf = Tail(@),
                            ![c].received = Append(@, Head(chan[c].buf))]
    /\ UNCHANGED <<extVars, runVars, nextChan, histVars>>
    /\ UNCHANGED auxVars

\* the subscriber closes / drops its Receiver
SubscriberClose(c) ==
    /\ c < nextChan
    /\ ~chan[c].closed
    /\ chan' = [chan EXCEPT ![c].closed = TRUE]
    /\ UNCHANGED <<extVars, runVars, nextChan, histVars>>
    /\ UNCHANGED auxVars

\* ------------------------------------------------------------------ stream
\* the upstream stream gets its next item ready
StreamArrive ==
    /\ ~streamReady
    /\ streamTaken < MaxItems
    /\ streamReady' = TRUE
    /\ UNCHANGED <<extVars, pc, result, control, handlesAlive, subscriptions,
                   roundOrder, to_remove, streamTaken, inflight, ret, chanVars,
                   histVars>>
    /\ UNCHANGED auxVars

\* ------------------------------------------------------ runner: the select
\* loop { tokio::select! { ... } }: both arms are polled at the top of the
\* loop only; select! without `biased` picks among the ready arms at random
\* variant: the control channel is also served while an item is handled
ControlPolledWhileBusy(p) == p \in {"select", "handling", "matching", "fanout"}
ControlPolled(p) == p = "select"
StreamPolled(p) == p = "select"

\* ExtractorRunner::subscribe
NextSubscriberId(subs) == Cardinality(DOMAIN subs)
Insert(subs, id, c) == [i \in DOMAIN subs \cup {id} |-> IF i = id THEN c ELSE subs[i]]

\* variant: the closed control channel counts as a Stop
StopReceivedOrClosed(ctrl, alive) ==
    \/ ctrl # <<>> /\ Head(ctrl).type = "Stop"
    \/ ctrl = <<>> /\ ~alive
\* Some(ctrl) = self.control_rx.recv() with ctrl = Stop: recv() yields None
\* on the closed, empty channel, which does not match the pattern of the arm
StopReceived(ctrl, alive) == ctrl # <<>> /\ Head(ctrl).type = "Stop"

\* control arm, ControlMessage::Stop
RunnerStop ==
    /\ ControlPolled(pc)
    /\ StopReceived(control, handlesAlive)
    /\ control' = IF control # <<>> THEN Tail(control) ELSE control
    /\ pc' = "done"
    /\ result' = "Ok"
    /\ UNCHANGED <<extVars, handlesAlive, subscriptions, roundOrder, to_remove,
                   streamReady, streamTaken, inflight, ret, chanVars, histVars>>
    /\ UNCHANGED auxVars

\* control arm, ControlMessage::Subscribe(sender)
RunnerSubscribe ==
    /\ ControlPolled(pc)
    /\ control # <<>>
    /\ Head(control).type = "Subscribe"
    /\ LET c == Head(control).chan
           subscriber_id == NextSubscriberId(subscriptions)
       IN  /\ subscriptions' = Insert(subscriptions, subscriber_id, c)
           /\ issued' = issued \cup {subscriber_id}
           /\ chan' = [chan EXCEPT ![c].regAt = produced]
    /\ control' = Tail(control)
    /\ UNCHANGED <<extVars, pc, result, handlesAlive, roundOrder, to_remove,
                   streamReady, streamTaken, inflight, ret, nextChan, produced, lastOp>>
    /\ UNCHANGED auxVars

\* stream arm: val = self.substreams.next(); None and Some(Err) return at once,
\* New and Undo are handed to the extractor
StreamReturn(it) == IF it.type \in {"End", "Err"} THEN "SubstreamsError" ELSE "running"

\* the runner hands the payload on unread (it reads the block number for its
\* log only), so one block and one cursor stand for all of them here
RunnerItems == {it \in StreamItems : it.block <= 1 /\ it.cursor <= 1}

RunnerTakeStream ==
    /\ StreamPolled(pc)
    /\ streamReady
    /\ streamReady' = FALSE
    /\ streamTaken' = streamTaken + 1
    /\ \E it \in RunnerItems :
         /\ result' = StreamReturn(it)
         /\ inflight' = it
         /\ pc' = IF StreamReturn(it) = "running" THEN "handling" ELSE "done"
    /\ UNCHANGED <<extVars, control, handlesAlive, subscriptions, roundOrder,
                   to_remove, ret, chanVars, histVars>>
    /\ UNCHANGED auxVars

\* ------------------------------------------------------ runner: propagate_msg
\* the message the round sends is the one the extractor just returned
\* variant: the round sends the message of the round before
MessageOfRoundStale(n) == IF n > 1 THEN n - 1 ELSE n
MessageOfRound(n) == n

\* sender.send(msg).await completes when the receiver is closed (Err) or the
\* channel has room (Ok); it waits otherwise
SendReady(ch) == ch.closed \/ Len(ch.buf) < SubscriberCapacity
SendOk(ch) == ~ch.closed
Enqueue(ch, m) == [ch EXCEPT !.buf = Append(@, m)]
\* variant: a failed send is only logged
MarkNothing(rem, id, ok) == rem
\* Err(err) => to_remove.push(*counter)
MarkForRemoval(rem, id, ok) == IF ok THEN rem ELSE rem \cup {id}
\* variant: the loop breaks at the first failed send
AdvanceBreakOnErr(order, ok) == IF ok THEN Tail(order) ELSE <<>>
\* the for loop goes on to the next subscriber, after Ok and after Err
Advance(order, ok) == Tail(order)
\* for counter in to_remove { subscribers.remove(&counter) }
RemoveInactive(subs, rem) == [i \in DOMAIN subs \ rem |-> subs[i]]

\* the values the handler of a stream item can return to the runner
HandlerReturns(it) ==
    IF it.type = "New"
    THEN {TickReturn(it, gw) : gw \in GatewayResults}
    ELSE UNION {RevertOutcomes(it, lpb, gw, d) :
                    lpb \in {NoBlock} \cup Blocks, gw \in GatewayResults, d \in Deltas}

\* self.extractor.handle_tick_scoped_data(data).await /
\* self.extractor.handle_revert(undo_signal).await returns
RunnerHandle ==
    /\ pc = "handling"
    /\ \E r \in HandlerReturns(inflight) : ret' = r
    /\ pc' = "matching"
    /\ UNCHANGED <<extVars, result, control, handlesAlive, subscriptions,
                   roundOrder, to_remove, streamReady, streamTaken, inflight,
                   chanVars, histVars>>
    /\ UNCHANGED auxVars

\* the match on the handler's result in the stream arm:
\*   Ok(Some(msg)) -> propagate_msg starts (locks the map, iterates it)
\*   Ok(None)      -> back to the select
\*   Err(err)      -> return Err(err)
\* variant: a handler error is logged and the loop goes on
IsErrNever(r) == FALSE
IsErr(r) == r \notin {"Some", "None"}

RunnerMatch ==
    /\ pc = "matching"
    /\ IF ret = "Some"
       THEN /\ produced' = produced + 1
            /\ result' = result
            /\ IF DOMAIN subscriptions = {}
               THEN pc' = "select" /\ roundOrder' = <<>>
               ELSE /\ pc' = "fanout"
                    /\ \E o \in Orders(DOMAIN subscriptions) : roundOrder' = o
       ELSE /\ UNCHANGED <<produced, roundOrder>>
            /\ IF IsErr(ret)
               THEN pc' = "done" /\ result' = ret
               ELSE pc' = "select" /\ result' = result
    /\ ret' = "-"
    /\ inflight' = NoItem
    /\ to_remove' = {}
    /\ UNCHANGED <<extVars, control, handlesAlive, subscriptions, streamReady,
                   streamTaken, chanVars, issued, lastOp>>
    /\ UNCHANGED auxVars

\* one iteration of the loop of propagate_msg; the last one also removes the
\* inactive subscribers and returns to the select
PropagateSend ==
    /\ pc = "fanout"
    /\ roundOrder # <<>>
    /\ LET id == Head(roundOrder)
           c == subscriptions[id]
           ok == SendOk(chan[c])
           rest == Advance(roundOrder, ok)
           rem == MarkForRemoval(to_remove, id, ok)
       IN  /\ SendReady(chan[c])
           /\ chan' = IF ok THEN [chan EXCEPT ![c] = Enqueue(@, MessageOfRound(produced))]
                      ELSE chan
           /\ roundOrder' = rest
           /\ IF rest = <<>>
              THEN /\ subscriptions' = RemoveInactive(subscriptions, rem)
                   /\ to_remove' = {}
                   /\ pc' = "select"
              ELSE /\ to_remove' = rem
                   /\ UNCHANGED <<subscriptions, pc>>
    /\ UNCHANGED <<extVars, result, control, handlesAlive, streamReady,
                   streamTaken, inflight, ret, nextChan, histVars>>
    /\ UNCHANGED auxVars

\* ------------------------------------------------------------- runner spec
\* state after ExtractorRunnerBuilder::run: a constructed extractor, an empty
\* subscription map, an empty control channel and one handle
Init ==
    /\ ext = "ready"
    /\ cursor = EmptyCursor
    /\ last_processed_block = NoBlock
    /\ calls = NoCalls
    /\ pc = "select"
    /\ result = "running"
    /\ control = <<>>
    /\ handlesAlive = TRUE
    /\ subscriptions = NoSubscriptions
    /\ roundOrder = <<>>
    /\ to_remove = {}
    /\ streamReady = FALSE
    /\ streamTaken = 0
    /\ inflight = NoItem
    /\ ret = "-"
    /\ chan = [c \in Chans |-> FreshChan]
    /\ nextChan = 1
    /\ produced = 0
    /\ issued = {}
    /\ lastOp = NoOp
    /\ persisted = EmptyCursor
    /\ upstream = EmptyCursor
    /\ journal = <<>>
    /\ store = EmptyStore(FALSE)
    /\ snaps = NoSnaps
    /\ gwOp = NoGwOp
    /\ MoreIdle

Next ==
    \/ HandleSubscribe
    \/ HandleStop
    \/ DropHandles
    \/ \E c \in Chans : SubscriberRecv(c)
    \/ \E c \in Chans : SubscriberClose(c)
    \/ StreamArrive
    \/ RunnerStop
    \/ RunnerSubscribe
    \/ RunnerTakeStream
    \/ RunnerHandle
    \/ RunnerMatch
    \/ PropagateSend

Spec == Init /\ [][Next]_vars

\* the runner task is scheduled and the stream delivers: every step of the
\* task that can be taken is taken; handles and subscribers act as they like
RunnerFairness ==
    /\ WF_vars(RunnerStop)
    /\ WF_vars(RunnerSubscribe)
    /\ WF_vars(RunnerTakeStream)
    /\ WF_vars(RunnerHandle)
    /\ WF_vars(RunnerMatch)
    /\ WF_vars(PropagateSend)
    /\ WF_vars(StreamArrive)

SpecLive == Init /\ [][Next]_vars /\ RunnerFairness

\* ------------------------------------------------ gateway: NativePgGateway
\* save_cursor: save_state(ExtractionState { cursor: new_cursor })
SaveCursor(st, c) == [st EXCEPT !.cursor = c]
UpsertBlock(st, b) == [st EXCEPT !.blocks = @ \cup {b}]
UpsertTxs(st, ch) == [st EXCEPT !.txs = @ \cup {<<ch.block, i>> : i \in 1..MaxTx}]
AddProtocolComponents(st, comps) == [st EXCEPT !.components = @ \cup comps]

\* forward gathers the new components and the state updates of all the
\* transactions of the block before it writes any of them
NewComponents(ch) == UNION {ch.txs[i].creates : i \in 1..MaxTx}
StateUpdates(ch) ==
    {[comp |-> c, tx |-> <<ch.block, i>>] : c \in Components, i \in 1..MaxTx}
        \cap {r \in StateRows : r.comp \in ch.txs[r.tx[2]].deltas}

\* update_protocol_states: looks the components up by external id
\* (.expect("Failed to find component")) and inserts the rows with a plain
\* INSERT: a row that is there already is a unique violation under a keyed
\* schema and a second row otherwise
UpdateProtocolStates(st, new) ==
    IF \E r \in new : r.comp \notin st.components
    THEN [ret |-> "panic", st |-> st]
    ELSE IF st.keyed /\ \E r \in new : st.states[r] > 0
    THEN [ret |-> "StorageError", st |-> st]
    ELSE [ret |-> "Ok",
          st |-> [st EXCEPT !.states =
                     [r \in StateRows |-> IF r \in new THEN @[r] + 1 ELSE @[r]]]]

\* NativePgGateway::forward: one transaction; nothing is committed unless
\* every write succeeded
Forward(st, ch) ==
    LET s1 == UpsertBlock(st, ch.block)
        s2 == UpsertTxs(s1, ch)
        s3 == AddProtocolComponents(s2, NewComponents(ch))
        upd == IF StateUpdates(ch) # {} THEN UpdateProtocolStates(s3, StateUpdates(ch))
               ELSE [ret |-> "Ok", st |-> s3]
    IN  IF upd.ret = "Ok"
        THEN [ret |-> "Ok", st |-> SaveCursor(upd.st, ch.cursor)]
        ELSE [ret |-> upd.ret, st |-> st]

TopBlock(st) == IF st.blocks = {} THEN NoBlock
                ELSE CHOOSE b \in st.blocks : \A x \in st.blocks : x <= b

\* advance(changes, new_cursor, syncing) -> forward: the next block of the
\* stream, or the last one delivered again
GwForward ==
    /\ gwOp.n < MaxCalls
    /\ \E ch \in Changes :
         LET res == Forward(store, ch)
         IN  /\ \/ ch.block >= TopBlock(store) /\ ch.cursor > store.cursor
                \/ gwOp.op = "forward" /\ ch = gwOp.changes
             /\ store' = res.st
             /\ snaps' = IF res.ret = "Ok"
                         THEN [b \in DOMAIN snaps \cup {ch.block} |->
                                  IF b = ch.block THEN res.st ELSE snaps[b]]
                         ELSE snaps
             /\ gwOp' = [n |-> gwOp.n + 1, op |-> "forward", changes |-> ch,
                         to |-> NoBlock, cursor |-> ch.cursor, ret |-> res.ret]
    /\ UNCHANGED <<extVars, runVars, chanVars, histVars, persisted, upstream, journal, moreVars>>

\* NativeGateway::revert for NativePgGateway (backward panics) and
\* AmbientGateway::revert for AmbientPgGateway: panic!("Not implemented")
GwRevert ==
    /\ gwOp.n < MaxCalls
    /\ \E to \in Blocks, c \in Cursors :
         /\ c <= store.cursor
         /\ gwOp' = [n |-> gwOp.n + 1, op |-> "revert", changes |-> NoChanges,
                     to |-> to, cursor |-> c, ret |-> "panic"]
    /\ UNCHANGED <<extVars, runVars, chanVars, histVars, persisted, upstream, journal, moreVars,
                   store, snaps>>

\* AmbientPgGateway::backward: get_block(to), get_delta, then a transaction
\* that holds save_cursor(new_cursor) only (revert_state is commented out)
Backward(st, to, c) ==
    IF to \notin st.blocks THEN [ret |-> "StorageError", st |-> st]
    ELSE [ret |-> "Ok", st |-> SaveCursor(st, c)]

GwBackward ==
    /\ gwOp.n < MaxCalls
    /\ \E to \in Blocks, c \in Cursors :
         /\ c <= store.cursor
         /\ store' = Backward(store, to, c).st
         /\ gwOp' = [n |-> gwOp.n + 1, op |-> "backward", changes |-> NoChanges,
                     to |-> to, cursor |-> c, ret |-> Backward(store, to, c).ret]
    /\ UNCHANGED <<extVars, runVars, chanVars, histVars, persisted, upstream, journal, moreVars,
                   snaps>>

\* the gateways on their own, on an empty database
InitGateway ==
    /\ ext = "new"
    /\ cursor = EmptyCursor
    /\ last_processed_block = NoBlock
    /\ calls = NoCalls
    /\ pc = "idle"
    /\ result = "running"
    /\ control = <<>>
    /\ handlesAlive = FALSE
    /\ subscriptions = NoSubscriptions
    /\ roundOrder = <<>>
    /\ to_remove = {}
    /\ streamReady = FALSE
    /\ streamTaken = 0
    /\ inflight = NoItem
    /\ ret = "-"
    /\ chan = [c \in Chans |-> FreshChan]
    /\ nextChan = 1
    /\ produced = 0
    /\ issued = {}
    /\ lastOp = NoOp
    /\ persisted = EmptyCursor
    /\ upstream = EmptyCursor
    /\ journal = <<>>
    /\ store \in {EmptyStore(k) : k \in BOOLEAN}
    /\ snaps = NoSnaps
    /\ gwOp = NoGwOp
    /\ MoreIdle

NextGateway ==
    \/ GwForward
    \/ GwRevert
    \/ GwBackward

SpecGateway == InitGateway /\ [][NextGateway]_vars

\* ------------------------------------------------------------ pipeline spec
\* the runner with its extractor, on the path from the stream to the
\* subscribers: the handler call of the stream arm runs
\* handle_tick_scoped_data / handle_revert on the item in flight, gateway
\* call included, and returns to the match
PipelineHandle ==
    /\ pc = "handling"
    /\ \E gw \in GatewayResults, delta \in Deltas :
         LET it == inflight
             lpb == last_processed_block
             isNew == it.type = "New"
             called == IF isNew THEN ForwardCalled(it) ELSE RevertCalled(it, lpb)
             r == IF isNew THEN TickReturn(it, gw) ELSE RevertReturn(it, lpb, gw, delta)
         IN  /\ ret' = r
             /\ calls' = IF ~called THEN calls
                         ELSE IF isNew THEN [calls EXCEPT !.forward = @ + 1]
                         ELSE [calls EXCEPT !.revert = @ + 1]
             /\ cursor' = IF isNew THEN CursorAfterTick(it, gw, cursor)
                          ELSE CursorAfterRevert(it, lpb, gw, cursor)
             /\ last_processed_block' = IF isNew THEN BlockAfterTick(it, gw, lpb) ELSE lpb
             /\ ext' = ExtAfterReturn(r)
             /\ persisted' = IF isNew THEN PersistedAfterTick(it, gw, persisted)
                             ELSE PersistedAfterRevert(it, lpb, gw, persisted)
             /\ upstream' = it.cursor
             /\ journal' = Append(journal,
                                  [item |-> streamTaken,
                                   write |-> IF called THEN gw ELSE "none",
                                   msg |-> IF r = "Some" THEN produced + 1 ELSE 0])
    /\ pc' = "matching"
    /\ UNCHANGED <<result, control, handlesAlive, subscriptions, roundOrder,
                   to_remove, streamReady, streamTaken, inflight, chanVars,
                   histVars, storeVars, moreVars>>

NextPipeline ==
    \/ HandleSubscribe
    \/ \E c \in Chans : SubscriberRecv(c)
    \/ \E c \in Chans : SubscriberClose(c)
    \/ StreamArrive
    \/ RunnerSubscribe
    \/ RunnerTakeStream
    \/ PipelineHandle
    \/ RunnerMatch
    \/ PropagateSend

SpecPipeline == Init /\ [][NextPipeline]_vars

\* ------------------------------------------------- forward, operation by operation
\* the runner, extractor and Postgres store at rest
RunnerIdle ==
    /\ ext = "new"
    /\ cursor = EmptyCursor
    /\ last_processed_block = NoBlock
    /\ calls = NoCalls
    /\ pc = "idle"
    /\ result = "running"
    /\ control = <<>>
    /\ handlesAlive = FALSE
    /\ subscriptions = NoSubscriptions
    /\ roundOrder = <<>>
    /\ to_remove = {}
    /\ streamReady = FALSE
    /\ streamTaken = 0
    /\ inflight = NoItem
    /\ ret = "-"
    /\ chan = [c \in Chans |-> FreshChan]
    /\ nextChan = 1
    /\ produced = 0
    /\ issued = {}
    /\ lastOp = NoOp
    /\ persisted = EmptyCursor
    /\ upstream = EmptyCursor
    /\ journal = <<>>
    /\ store = EmptyStore(FALSE)
    /\ snaps = NoSnaps
    /\ gwOp = NoGwOp

\* tokens of the components of a set of components
TokensOf(comps) == UNION comps
\* every token a block's new components reference (ambient: tokens_set,
\* native: protocol_tokens)
ReferencedTokens(ch) == UNION {TokensOf(ch.txs[i].comps) : i \in DOMAIN ch.txs}

\* state_gateway.get_tokens(chain, Some(addresses)): the stored tokens among
\* the addresses
DbTokens(stored, addresses) == stored \cap addresses

\* get_new_tokens: the referenced tokens without those the storage returned
GetNewTokensUnfiltered(referenced, db) == referenced
GetNewTokens(referenced, db) == referenced \ db

\* token_pre_processor.get_tokens: one token per address asked for
ResolveTokens(order) == [i \in DOMAIN order |-> [address |-> order[i]]]
AddressesOf(toks) == {toks[i].address : i \in DOMAIN toks}

\* let batch_size = if syncing { self.sync_batch_size } else { 0 }
BatchSizeNever(syncing, size) == 0
BatchSize(syncing, size) == IF syncing THEN size ELSE 0

\* get_new_tokens, then the pre-processor and add_tokens if anything is new;
\* order is the Vec the HashSet was collected into
TokenOpsWithoutInsert(referenced, order) ==
    <<Call("get_tokens", 0, referenced, <<>>, 0)>>
TokenOps(referenced, order) ==
    <<Call("get_tokens", 0, referenced, <<>>, 0)>>
    \o (IF order # <<>>
        THEN <<Call("pre_processor", 0, {}, order, 0),
               Call("add_tokens", 0, AddressesOf(ResolveTokens(order)), <<>>, 0)>>
        ELSE <<>>)

\* AmbientPgGateway::forward, body of the loop over tx_updates
AmbientTxOps(ch, i) ==
    <<Call("upsert_tx", i, {}, <<>>, 0)>>
    \o (IF ch.txs[i].comps # {}
        THEN <<Call("add_protocol_components", i, TokensOf(ch.txs[i].comps), <<>>, 0)>>
        ELSE <<>>)
    \o (IF ch.txs[i].balances
        THEN <<Call("add_component_balances", i, {}, <<>>, 0)>>
        ELSE <<>>)

RECURSIVE AmbientLoop(_, _)
AmbientLoop(ch, i) ==
    IF i > Len(ch.txs) THEN <<>> ELSE AmbientTxOps(ch, i) \o AmbientLoop(ch, i + 1)

\* AmbientPgGateway::forward: the calls it makes if none fails
AmbientForwardOps(ch, order, batch) ==
    <<Call("start_transaction", 0, {}, <<>>, 0)>>
    \o TokenOps(ReferencedTokens(ch), order)
    \o <<Call("upsert_block", 0, {}, <<>>, 0)>>
    \o AmbientLoop(ch, 1)
    \o <<Call("update_contracts", 0, {}, <<>>, 0),
         Call("save_state", 0, {}, <<>>, 0),
         Call("commit_transaction", 0, {}, <<>>, batch)>>

\* NativePgGateway::forward, the loop over txs_with_update
RECURSIVE NativeLoop(_, _)
NativeLoop(ch, i) ==
    IF i > Len(ch.txs) THEN <<>>
    ELSE <<Call("upsert_tx", i, {}, <<>>, 0)>> \o NativeLoop(ch, i + 1)

\* NativePgGateway::forward: the calls it makes if none fails
NativeForwardOpsUncommitted(ch, order, batch) ==
    <<Call("start_transaction", 0, {}, <<>>, 0), Call("upsert_block", 0, {}, <<>>, 0)>>
NativeForwardOps(ch, order, batch) ==
    LET comps == UNION {ch.txs[i].comps : i \in DOMAIN ch.txs}
        deltas == \E i \in DOMAIN ch.txs : ch.txs[i].delta
        balances == \E i \in DOMAIN ch.txs : ch.txs[i].balances
    IN  <<Call("start_transaction", 0, {}, <<>>, 0),
          Call("upsert_block", 0, {}, <<>>, 0)>>
        \o NativeLoop(ch, 1)
        \o TokenOps(ReferencedTokens(ch), order)
        \o (IF comps # {}
            THEN <<Call("add_protocol_components", 0, TokensOf(comps), <<>>, 0)>>
            ELSE <<>>)
        \o (IF deltas THEN <<Call("update_protocol_states", 0, {}, <<>>, 0)>> ELSE <<>>)
        \o (IF balances THEN <<Call("add_component_balances", 0, {}, <<>>, 0)>> ELSE <<>>)
        \o <<Call("save_state", 0, {}, <<>>, 0),
             Call("commit_transaction", 0, {}, <<>>, batch)>>

\* the calls whose result forward passes through `?`
Fallible(c) == c.op \notin {"start_transaction", "pre_processor"}

\* variant: the error of a call is not passed on, the later calls are made
IssuedDespiteFailure(ops, failAt) == ops
\* the calls issued when call number failAt returns an error (0: none does)
Issued(ops, failAt) == IF failAt = 0 THEN ops ELSE SubSeq(ops, 1, failAt)

\* tokens the storage holds after the calls
TokensAfter(stored, ops, failAt) ==
    IF failAt # 0 THEN stored
    ELSE stored \cup UNION {ops[i].toks : i \in {k \in DOMAIN ops : ops[k].op = "add_tokens"}}

AmbientForward ==
    /\ adv.op = "none"
    /\ \E ch \in FwdChanges, syncing \in BOOLEAN :
         LET referenced == ReferencedTokens(ch)
             new == GetNewTokens(referenced, DbTokens(tokens, referenced))
         IN  \E order \in Orders(new) :
               LET ops == AmbientForwardOps(ch, order, BatchSize(syncing, syncBatch))
               IN  \E failAt \in 0..Len(ops) :
                     /\ failAt # 0 => Fallible(ops[failAt])
                     /\ adv' = [op |-> "ambient", changes |-> ch, syncing |-> syncing,
                                known |-> tokens, new |-> order,
                                ops |-> Issued(ops, failAt),
                                ret |-> IF failAt = 0 THEN "Ok" ELSE "StorageError",
                                failed |-> IF failAt = 0 THEN "none" ELSE ops[failAt].op]
                     /\ tokens' = TokensAfter(tokens, ops, failAt)
    /\ UNCHANGED <<extVars, runVars, chanVars, histVars, persisted, upstream,
                   journal, storeVars, syncBatch, cache, tickVars, agg, sync, lateVars>>

NativeForward ==
    /\ adv.op = "none"
    /\ \E ch \in FwdChanges, syncing \in BOOLEAN :
         LET referenced == ReferencedTokens(ch)
             new == GetNewTokens(referenced, DbTokens(tokens, referenced))
         IN  \E order \in Orders(new) :
               LET ops == NativeForwardOps(ch, order, BatchSize(syncing, syncBatch))
               IN  \E failAt \in 0..Len(ops) :
                     /\ failAt # 0 => Fallible(ops[failAt])
                     /\ adv' = [op |-> "native", changes |-> ch, syncing |-> syncing,
                                known |-> tokens, new |-> order,
                                ops |-> Issued(ops, failAt),
                                ret |-> IF failAt = 0 THEN "Ok" ELSE "StorageError",
                                failed |-> IF failAt = 0 THEN "none" ELSE ops[failAt].op]
                     /\ tokens' = TokensAfter(tokens, ops, failAt)
    /\ UNCHANGED <<extVars, runVars, chanVars, histVars, persisted, upstream,
                   journal, storeVars, syncBatch, cache, tickVars, agg, sync, lateVars>>

\* a gateway with some tokens stored and some sync_batch_size, before a block
InitAdvance ==
    /\ RunnerIdle
    /\ tokens \in SUBSET TokenAddrs
    /\ syncBatch \in {0, MaxBatch}
    /\ adv = NoAdv
    /\ cache = NoCache
    /\ TickIdle
    /\ agg = NoAgg
    /\ sync = NoSync
    /\ LateIdle

NextAdvance ==
    \/ AmbientForward
    \/ NativeForward

SpecAdvance == InitAdvance /\ [][NextAdvance]_vars

\* ------------------------------------------------------- batched commits
\* CachedGateway::commit_transaction(batch_size): the transaction joins the
\* recorded ones; with batch_size 0, or once batch_size transactions are
\* recorded, all of them are written in one database transaction
CommitTransaction(c, txn, batch) ==
    LET all == Append(c.pending, txn)
    IN  IF batch = 0 \/ Len(all) >= batch
        THEN [c EXCEPT !.pending = <<>>,
                       !.blocks = @ \cup {all[i].block : i \in DOMAIN all},
                       !.cursor = all[Len(all)].cursor,
                       !.flushed = TRUE]
        ELSE [c EXCEPT !.pending = all, !.flushed = FALSE]

\* a forward that succeeds, as the cached gateway sees it: a transaction
\* for the block that saves the cursor, committed with the batch size
ForwardCommit ==
    /\ cache.n < MaxCalls
    /\ \E b \in Blocks, c \in Cursors, syncing \in BOOLEAN :
         cache' = [CommitTransaction(cache, [block |-> b, cursor |-> c],
                                     BatchSize(syncing, syncBatch))
                     EXCEPT !.n = @ + 1, !.syncing = syncing]
    /\ UNCHANGED <<extVars, runVars, chanVars, histVars, persisted, upstream,
                   journal, storeVars, tokens, syncBatch, adv, tickVars, agg, sync, lateVars>>

InitCache ==
    /\ RunnerIdle
    /\ tokens = {}
    /\ syncBatch \in 0..MaxBatch
    /\ adv = NoAdv
    /\ cache = NoCache
    /\ TickIdle
    /\ agg = NoAgg
    /\ sync = NoSync
    /\ LateIdle

NextCache == ForwardCommit

SpecCache == InitCache /\ [][NextCache]_vars

\* ------------------------------------------------------------ aggregation
\* the updates of a block's transactions, in transaction order: the account
\* or component written, Creation or Update, the slots / attributes written
\* and the attributes deleted
Addrs == {"a1", "a2"}
Keys == {"k1"}
Values == {"v1", "v2"}
Writes == UNION {[K -> Values] : K \in SUBSET Keys}
Updates == {u \in [addr : Addrs, change : {"Creation", "Update"}, slots : Writes,
                   deleted : SUBSET Keys] : DOMAIN u.slots \cap u.deleted = {}}
\* an account or component is created by the first update that names it
CreatedFirst(seq) ==
    \A i, j \in DOMAIN seq :
      (i < j /\ seq[i].addr = seq[j].addr) => seq[j].change = "Update"
TxUpdatesIn == {seq \in [1..MaxTx -> Updates] : CreatedFirst(seq)}

\* merge of a later update into the entry of the same address: later writes
\* overwrite, later deletions remove earlier writes, the entry keeps its kind
Merge(entry, u) ==
    [change |-> entry.change,
     slots |-> [k \in (DOMAIN entry.slots \ u.deleted) \cup DOMAIN u.slots |->
                  IF k \in DOMAIN u.slots THEN u.slots[k] ELSE entry.slots[k]],
     deleted |-> (entry.deleted \ DOMAIN u.slots) \cup u.deleted]

EntryOf(u) == [change |-> u.change, slots |-> u.slots, deleted |-> u.deleted]

\* aggregate_updates: fold of tx_updates, left to right, into one entry per
\* address
RECURSIVE AggregateFrom(_, _, _)
AggregateFrom(seq, i, acc) ==
    IF i > Len(seq) THEN acc
    ELSE LET u == seq[i]
             entry == IF u.addr \in DOMAIN acc THEN Merge(acc[u.addr], u) ELSE EntryOf(u)
         IN  AggregateFrom(seq, i + 1,
                           [a \in DOMAIN acc \cup {u.addr} |->
                              IF a = u.addr THEN entry ELSE acc[a]])

NoEntries == [a \in {} |-> EntryOf(CHOOSE u \in Updates : TRUE)]
AggregateUpdates(seq) == AggregateFrom(seq, 1, NoEntries)

\* let msg = Arc::new(msg.aggregate_updates()?): the message returned
EmittedMessageLastOnly(seq) == AggregateUpdates(<<seq[Len(seq)]>>)
EmittedMessage(seq) == AggregateUpdates(seq)

Aggregate ==
    /\ agg.op = "input"
    /\ agg' = [op |-> "done", updates |-> agg.updates,
               out |-> EmittedMessage(agg.updates)]
    /\ UNCHANGED <<extVars, runVars, chanVars, histVars, persisted, upstream,
                   journal, storeVars, advVars, tickVars, sync, lateVars>>

InitAggregate ==
    /\ RunnerIdle
    /\ AdvIdle
    /\ TickIdle
    /\ agg \in {[op |-> "input", updates |-> seq, out |-> NoEntries] : seq \in TxUpdatesIn}
    /\ sync = NoSync
    /\ LateIdle

NextAggregate == Aggregate

SpecAggregate == InitAggregate /\ [][NextAggregate]_vars

\* ------------------------------------------------------ block synchronizer
\* the extractors registered with the synchronizer (one per --exchange)
Streams == {"uniswap_v2", "uniswap_v3", "vm:ambient"}
\* consecutive deadlines a stream may miss before it is Stale
StaleAfter == 2

\* what a stream does within one tick's deadline (block_time + timeout):
\* a message for the expected height or ahead of it, a message behind the
\* expected height, nothing, or the end of the stream
Outcomes(st) ==
    CASE st.status \in {"Ready", "Delayed"} -> {"message", "silent", "closed"}
      [] st.status = "Stale" -> {"message", "behind", "silent", "closed"}
      [] OTHER -> {"none"}

\* a stream after the tick
StreamAfterNeverStale(st, o) ==
    CASE o = "closed" -> [status |-> "Ended", misses |-> 0]
      [] o = "message" -> [status |-> "Ready", misses |-> 0]
      [] o = "none" -> st
      [] OTHER -> [status |-> "Delayed", misses |-> st.misses + 1]
StreamAfter(st, o) ==
    CASE o = "closed" -> [status |-> "Ended", misses |-> 0]
      [] o = "message" -> [status |-> "Ready", misses |-> 0]
      [] o = "none" -> st
      [] st.status = "Stale" -> st
      [] st.misses + 1 >= StaleAfter -> [status |-> "Stale", misses |-> StaleAfter]
      [] OTHER -> [status |-> "Delayed", misses |-> st.misses + 1]

\* the FeedMessage of the tick: per extractor its status, and its payload
\* if it reported
FeedMessage(height, streams) ==
    [block |-> height,
     by_extractor |-> [id \in Streams |->
                         [status |-> streams[id].status,
                          payload |-> streams[id].status = "Ready"]]]

NoFeed == [block |-> 0,
           by_extractor |-> [id \in Streams |-> [status |-> "none", payload |-> FALSE]]]

\* one tick of BlockSynchronizer::run, and the consumer loop of main.rs
\* taking the message
SyncTick ==
    /\ sync.op # "none"
    /\ sync.n < MaxCalls
    /\ \E o \in [Streams -> {"message", "behind", "silent", "closed", "none"}] :
         /\ \A id \in Streams : o[id] \in Outcomes(sync.streams[id])
         /\ LET after == [id \in Streams |-> StreamAfter(sync.streams[id], o[id])]
            IN  sync' = [op |-> "tick", n |-> sync.n + 1, height |-> sync.height + 1,
                         streams |-> after, last |-> o,
                         feed |-> FeedMessage(sync.height, after)]
    /\ UNCHANGED <<extVars, runVars, chanVars, histVars, persisted, upstream,
                   journal, storeVars, advVars, tickVars, agg, lateVars>>

InitSync ==
    /\ RunnerIdle
    /\ AdvIdle
    /\ TickIdle
    /\ agg = NoAgg
    /\ sync = [op |-> "run", n |-> 0, height |-> 1,
               streams |-> [id \in Streams |-> [status |-> "Ready", misses |-> 0]],
               last |-> [id \in Streams |-> "none"], feed |-> NoFeed]
    /\ LateIdle

NextSync == SyncTick

SpecSync == InitSync /\ [][NextSync]_vars

\* ------------------------------------- handle_tick_scoped_data, lock by lock
\* u64 subtraction; the modulus stands for 2^64 and lies far above every
\* block number of the model
WordModulus == 2^30
SubU64(a, b) == (a - b) % WordModulus
\* blocks behind the chain head above which the extractor is syncing
SyncDistance == 5

\* is_syncing(block_number), current_block being the chain head
IsSyncingSubtracts(current_block, block_number) == current_block > block_number
IsSyncingUnguarded(current_block, block_number) ==
    SubU64(current_block, block_number) > SyncDistance
IsSyncing(current_block, block_number) ==
    IF current_block > block_number
    THEN SubU64(current_block, block_number) > SyncDistance
    ELSE FALSE

\* the converted message of a block, the post-processor and the aggregation
Converted(number) == [block |-> number, processed |-> FALSE, aggregated |-> FALSE]
PostProcess(post, m) == IF post THEN [m EXCEPT !.processed = TRUE] ELSE m
AggregatedMsg(m) == [m EXCEPT !.aggregated = TRUE]
NoMsg == [block |-> NoBlock, processed |-> FALSE, aggregated |-> FALSE]

\* the message the handler gives to the gateway: the ambient extractor
\* post-processes before upsert_contract, the native one calls advance on
\* the converted message
GatewayInput(flavour, post, m) ==
    IF flavour = "ambient" THEN PostProcess(post, m) ELSE m
\* the message the handler returns: ambient aggregates what it wrote, native
\* post-processes the aggregate
Returned(flavour, post, m) ==
    IF flavour = "ambient" THEN AggregatedMsg(PostProcess(post, m))
    ELSE PostProcess(post, AggregatedMsg(m))

\* handle_tick_scoped_data up to the gateway call: decode, convert,
\* (ambient) post-process, is_syncing, upsert_contract / advance; an Empty
\* payload updates the cursor under the lock and returns None
TickBegin ==
    /\ tk.pc = "idle"
    /\ tk.n < MaxItems
    /\ \E number \in Blocks, c \in Cursors, head \in 0..MaxHeight,
          kind \in {"ok", "empty"}, gw \in GatewayResults :
         /\ number > inner.last_processed_block
         /\ c > inner.cursor
         /\ IF kind = "empty"
            THEN /\ gw = "Ok"
                 /\ head = 0
                 /\ inner' = [inner EXCEPT !.cursor = c]
                 /\ tk' = [tk EXCEPT !.n = @ + 1, !.number = NoBlock, !.cursor = c,
                                     !.written = NoMsg, !.out = NoMsg, !.ret = "None"]
            ELSE /\ tk' = [tk EXCEPT
                             !.pc = IF gw = "Ok" THEN "update_last_processed_block"
                                    ELSE "failed",
                             !.number = number, !.cursor = c, !.head = head,
                             !.syncing = IsSyncing(head, number),
                             !.subtracted = IsSyncingSubtracts(head, number),
                             !.written = GatewayInput(tk.flavour, tk.post, Converted(number)),
                             !.out = NoMsg,
                             !.ret = IF gw = "Ok" THEN "-" ELSE "StorageError"]
                 /\ inner' = inner
    /\ seen' = seen
    /\ UNCHANGED <<extVars, runVars, chanVars, histVars, persisted, upstream,
                   journal, storeVars, advVars, agg, sync, lateVars>>

\* update_last_processed_block: lock, assign, unlock
UpdateLastProcessedBlock ==
    /\ tk.pc = "update_last_processed_block"
    /\ inner' = [inner EXCEPT !.last_processed_block = tk.number]
    /\ tk' = [tk EXCEPT !.pc = "report_progress"]
    /\ seen' = seen
    /\ UNCHANGED <<extVars, runVars, chanVars, histVars, persisted, upstream,
                   journal, storeVars, advVars, agg, sync, lateVars>>

\* report_progress: under the lock, once a minute while syncing, log and
\* remember the block reported
ReportProgress ==
    /\ tk.pc = "report_progress"
    /\ \E minutePassed \in BOOLEAN :
         inner' = IF IsSyncing(tk.head, tk.number) /\ minutePassed
                  THEN [inner EXCEPT !.last_report_block_number = tk.number]
                  ELSE inner
    /\ tk' = [tk EXCEPT !.pc = "update_cursor"]
    /\ seen' = seen
    /\ UNCHANGED <<extVars, runVars, chanVars, histVars, persisted, upstream,
                   journal, storeVars, advVars, agg, sync, lateVars>>

\* update_cursor: lock, assign, unlock; then aggregate, (native)
\* post-process, and return Some(msg)
UpdateCursor ==
    /\ tk.pc = "update_cursor"
    /\ inner' = [inner EXCEPT !.cursor = tk.cursor]
    /\ tk' = [tk EXCEPT !.pc = "idle", !.n = @ + 1, !.ret = "Some",
                        !.out = Returned(tk.flavour, tk.post, Converted(tk.number))]
    /\ seen' = seen
    /\ UNCHANGED <<extVars, runVars, chanVars, histVars, persisted, upstream,
                   journal, storeVars, advVars, agg, sync, lateVars>>

\* another task takes the lock while it is free and reads the state
ReaderLock ==
    /\ seen' = [at |-> tk.pc, cursor |-> inner.cursor,
                last_processed_block |-> inner.last_processed_block,
                forward |-> [block |-> tk.number, cursor |-> tk.cursor]]
    /\ seen' # seen
    /\ UNCHANGED <<extVars, runVars, chanVars, histVars, persisted, upstream,
                   journal, storeVars, advVars, inner, tk, agg, sync, lateVars>>

InitTick ==
    /\ RunnerIdle
    /\ AdvIdle
    /\ inner = NoInner
    /\ tk \in {[pc |-> "idle", flavour |-> f, post |-> p, n |-> 0, number |-> NoBlock,
                cursor |-> EmptyCursor, head |-> 0, syncing |-> FALSE,
                subtracted |-> FALSE, written |-> NoMsg, out |-> NoMsg, ret |-> "-"] :
               f \in {"ambient", "native"}, p \in BOOLEAN}
    /\ seen = NoSeen
    /\ agg = NoAgg
    /\ sync = NoSync
    /\ LateIdle

NextTick ==
    \/ TickBegin
    \/ UpdateLastProcessedBlock
    \/ ReportProgress
    \/ UpdateCursor
    \/ ReaderLock

SpecTick == InitTick /\ [][NextTick]_vars

\* ======================================================================
\* PostgresGateway: protocol types and versioned protocol states (protocol.rs)
\* ======================================================================
ProtocolTypeNames == {"Pool", "Protocol"}
FinancialTypes == {"Swap", "Leverage"}
ImplementationTypes == {"Vm", "Custom"}
AttributeSchemas == {"null", "schema", "another_schema"}
ProtocolTypes ==
    [name : ProtocolTypeNames, financial_type : FinancialTypes,
     attribute_schema : AttributeSchemas, implementation : ImplementationTypes]

\* orm::NewProtocolType of a models::ProtocolType; as a changeset it sets every
\* column but the key
ToStorage(new) ==
    [name |-> new.name, financial_type |-> new.financial_type,
     attribute_schema |-> new.attribute_schema, implementation |-> new.implementation]
DoUpdateSet(row, values) ==
    [row EXCEPT !.financial_type = values.financial_type,
                !.attribute_schema = values.attribute_schema,
                !.implementation = values.implementation]

\* variant: a plain insert_into(protocol_type).values(&values)
InsertProtocolTypePlain(rows, values) == rows \cup {values}
\* insert_into(protocol_type).values(&values).on_conflict(name).do_update().set(&values)
InsertProtocolType(rows, values) ==
    IF \E r \in rows : r.name = values.name
    THEN {IF r.name = values.name THEN DoUpdateSet(r, values) ELSE r : r \in rows}
    ELSE rows \cup {values}

NoProtocolType == [name |-> "none"]

\* PostgresGateway::upsert_protocol_type
UpsertProtocolType ==
    /\ pg.op = "types"
    /\ pg.n < MaxCalls
    /\ \E new \in ProtocolTypes :
         pg' = [pg EXCEPT !.n = @ + 1,
                          !.types = InsertProtocolType(@, ToStorage(new)),
                          !.count[new.name] = @ + 1,
                          !.latest[new.name] = new]
    /\ UNCHANGED <<extVars, runVars, chanVars, histVars, persisted, upstream,
                   journal, storeVars, advVars, tickVars, agg, sync, rp>>

\* an empty protocol_type table
InitProtocolType ==
    /\ RunnerIdle
    /\ AdvIdle
    /\ TickIdle
    /\ agg = NoAgg
    /\ sync = NoSync
    /\ pg = [op |-> "types", n |-> 0, types |-> {},
             count |-> [nm \in ProtocolTypeNames |-> 0],
             latest |-> [nm \in ProtocolTypeNames |-> NoProtocolType]]
    /\ rp = NoRp

NextProtocolType == UpsertProtocolType

SpecProtocolType == InitProtocolType /\ [][NextProtocolType]_vars

\* ---------------------------------------------------- protocol_state rows
Null == 0                 \* Option::None of a version and of valid_to
PgComponents == {"state1", "state2"}
PgAttrs == {"reserve1", "reserve2"}
TxTimes == 1..MaxTx
Versions == {Null} \cup TxTimes
\* ProtocolState as update_protocol_states receives it
PgStates ==
    {[component_id |-> c, updated_attributes |-> f] :
        c \in PgComponents,
        f \in UNION {[A -> Values] : A \in SUBSET PgAttrs \ {{}}}}

\* ProtocolState::to_storage: one row per updated attribute, valid from the
\* transaction on, with no valid_to
ToStorageRows(state, ts) ==
    {[component |-> state.component_id, attr |-> a,
      value |-> state.updated_attributes[a], valid_from |-> ts, valid_to |-> Null] :
        a \in DOMAIN state.updated_attributes}

\* the versioned protocol_state table: an inserted row ends the validity of the
\* row of the same component and attribute that was valid until then
InsertProtocolStates(rows, new) ==
    {IF r.valid_to = Null
        /\ \E n \in new : n.component = r.component /\ n.attr = r.attr
     THEN [r EXCEPT !.valid_to =
               (CHOOSE n \in new : n.component = r.component /\ n.attr = r.attr).valid_from]
     ELSE r : r \in rows} \cup new

\* variant: the version is ignored, the rows without valid_to are returned
ValidAtCurrentOnly(r, version_ts) == r.valid_to = Null
\* orm::ProtocolState::by_id / by_protocol_system / by_chain: the filter on the
\* validity range
ValidAt(r, version_ts) ==
    IF version_ts = Null
    THEN r.valid_to = Null
    ELSE r.valid_from <= version_ts /\ (r.valid_to = Null \/ version_ts < r.valid_to)

\* the rows the query of get_protocol_states loads
QueryRows(rows, ids, version_ts) ==
    {r \in rows : r.component \in ids /\ ValidAt(r, version_ts)}

\* ProtocolState::merge: the attributes of the other state are added to, and
\* replace, those of this state
MergedAttributes(sel, c) ==
    LET A == {r.attr : r \in {x \in sel : x.component = c}}
    IN  {f \in [A -> Values] :
            \A a \in A : \E r \in sel : r.component = c /\ r.attr = a /\ r.value = f[a]}

\* variant: every row becomes a state of its own
DecodeProtocolStatesUnmerged(sel) ==
    {{[component_id |-> r.component, attributes |-> [a \in {r.attr} |-> r.value]] :
         r \in sel}}
\* decode_protocol_states: the rows are folded into a map keyed by component
\* id; the order of the rows decides which of two rows of one attribute is
\* merged last, so the results are a set
DecodeProtocolStates(sel) ==
    LET C == {r.component : r \in sel}
        Candidates == UNION {{[component_id |-> c, attributes |-> f] :
                                 f \in MergedAttributes(sel, c)} : c \in C}
    IN  {S \in SUBSET Candidates :
            \A c \in C : Cardinality({st \in S : st.component_id = c}) = 1}

\* PostgresGateway::update_protocol_states, for one state of a known component
\* changed by a known transaction
PgUpdateProtocolStates ==
    /\ pg.op = "states"
    /\ pg.last.op # "get"
    /\ Len(pg.hist) < MaxTx
    /\ \E state \in PgStates, ts \in TxTimes :
         /\ ts \in {pg.clock, pg.clock + 1}
         /\ pg' = [pg EXCEPT !.rows = InsertProtocolStates(@, ToStorageRows(state, ts)),
                             !.clock = ts,
                             !.hist = Append(@, [state |-> state, ts |-> ts]),
                             !.last = [op |-> "update"]]
    /\ UNCHANGED <<extVars, runVars, chanVars, histVars, persisted, upstream,
                   journal, storeVars, advVars, tickVars, agg, sync, rp>>

\* PostgresGateway::get_protocol_states by ids, at a version or at none
PgGetProtocolStates ==
    /\ pg.op = "states"
    /\ pg.last.op # "get"
    /\ \E at \in Versions, ids \in SUBSET PgComponents \ {{}} :
         \E out \in DecodeProtocolStates(QueryRows(pg.rows, ids, at)) :
             pg' = [pg EXCEPT !.last = [op |-> "get", at |-> at, ids |-> ids, out |-> out]]
    /\ UNCHANGED <<extVars, runVars, chanVars, histVars, persisted, upstream,
                   journal, storeVars, advVars, tickVars, agg, sync, rp>>

\* an empty protocol_state table, the components exist
InitProtocolState ==
    /\ RunnerIdle
    /\ AdvIdle
    /\ TickIdle
    /\ agg = NoAgg
    /\ sync = NoSync
    /\ pg = [op |-> "states", rows |-> {}, clock |-> 0, hist |-> <<>>,
             last |-> [op |-> "none"]]
    /\ rp = NoRp

NextProtocolState ==
    \/ PgUpdateProtocolStates
    \/ PgGetProtocolStates

SpecProtocolState == InitProtocolState /\ [][NextProtocolState]_vars

\* ======================================================================
\* report_progress over a stream with reverts (ambient.rs / native.rs)
\* ======================================================================
\* ChainState::current_block: the head does not go back between two reads
HeadsFrom(head) == head..MaxHeight

\* handle_tick_scoped_data of the block after the last valid one, the gateway
\* write done: update_last_processed_block, then report_progress
ReportForward ==
    /\ rp.op = "report"
    /\ rp.n < MaxCalls
    /\ rp.tip < MaxHeight
    /\ \E head1 \in HeadsFrom(rp.head), minutePassed \in BOOLEAN :
         LET number == rp.tip + 1
             emits == IsSyncing(head1, number) /\ minutePassed
         IN  \E head2 \in HeadsFrom(head1) :
               /\ ~emits => head2 = head1
               /\ rp' = [rp EXCEPT
                           !.n = @ + 1,
                           !.tip = number,
                           !.last_processed_block = number,
                           !.head = head2,
                           !.emitted = emits,
                           !.number = number,
                           !.current_block = head2,
                           !.reported_before = rp.last_report_block_number,
                           !.distance_to_current =
                               IF emits THEN SubU64(head2, number) ELSE 0,
                           !.blocks_processed =
                               IF emits THEN SubU64(number, rp.last_report_block_number)
                               ELSE 0,
                           !.last_report_block_number = IF emits THEN number ELSE @]
    /\ UNCHANGED <<extVars, runVars, chanVars, histVars, persisted, upstream,
                   journal, storeVars, advVars, tickVars, agg, sync, pg>>

\* handle_revert to an earlier block: the cursor moves, Inner's
\* last_processed_block and last_report_block_number stay
ReportRevert ==
    /\ rp.op = "report"
    /\ rp.n < MaxCalls
    /\ rp.last_processed_block # NoBlock
    /\ \E to \in 0..MaxHeight :
         /\ to < rp.tip
         /\ rp' = [rp EXCEPT !.n = @ + 1, !.tip = to, !.emitted = FALSE]
    /\ UNCHANGED <<extVars, runVars, chanVars, histVars, persisted, upstream,
                   journal, storeVars, advVars, tickVars, agg, sync, pg>>

\* a fresh extractor whose stream starts after some block
InitReport ==
    /\ RunnerIdle
    /\ AdvIdle
    /\ TickIdle
    /\ agg = NoAgg
    /\ sync = NoSync
    /\ pg = NoPg
    /\ \E start \in 0..MaxBlock :
         rp = [op |-> "report", n |-> 0, tip |-> start, head |-> 0,
               last_processed_block |-> NoBlock, last_report_block_number |-> 0,
               emitted |-> FALSE, number |-> NoBlock, current_block |-> 0,
               reported_before |-> 0, distance_to_current |-> 0,
               blocks_processed |-> 0]

NextReport ==
    \/ ReportForward
    \/ ReportRevert

SpecReport == InitReport /\ [][NextReport]_vars

\* ======================================================================
\* Properties
\* ======================================================================
Registered(c) == \E i \in DOMAIN subscriptions : subscriptions[i] = c
\* the runner is between taking a stream item and the end of its handling
InFlight == pc \in {"handling", "matching", "fanout"}
\* a subscriber that has not read the previous message and has not closed
Slow(c) == ~chan[c].closed /\ Len(chan[c].buf) >= SubscriberCapacity
\* everything that was ever put into channel c, after the step
SentNext(c) == chan'[c].received \o chan'[c].buf
\* the step is an iteration of the fan-out loop
SendStep == pc = "fanout" /\ roundOrder' # roundOrder
\* the step is the runner's Subscribe
SubscribeStep ==
    Len(control') < Len(control) /\ Head(control).type = "Subscribe" /\ pc' # "done"

\* C1: every processed Subscribe issues an id strictly greater than every id
\* issued before, keeps every registered subscriber and grows the map by one.
C1_SubscribeIssuesFreshId ==
    [][SubscribeStep =>
          LET id == CHOOSE i \in DOMAIN subscriptions' :
                        subscriptions'[i] = Head(control).chan
          IN  /\ \A k \in issued : k < id
              /\ \A i \in DOMAIN subscriptions :
                    i \in DOMAIN subscriptions' /\ subscriptions'[i] = subscriptions[i]
              /\ Cardinality(DOMAIN subscriptions') = Cardinality(DOMAIN subscriptions) + 1
      ]_vars

\* C2: every subscriber receives the messages in the order the extractor
\* produced them: none twice, no two swapped.
C2_ReceivedInProductionOrder ==
    \A c \in Chans :
        /\ \A k \in 1..Len(Sent(c)) : Sent(c)[k] \in 1..produced
        /\ \A j, k \in 1..Len(Sent(c)) : j < k => Sent(c)[j] < Sent(c)[k]

C2_Witness ==
    \E c \in Chans : Len(chan[c].received) >= 2

\* C3 (as stated): what a registered subscriber was sent is the prefix of the
\* runner's output up to the last message it was sent.
C3_DeliveredIsOutputPrefix ==
    \A c \in Chans : Registered(c) => \A k \in 1..Len(Sent(c)) : Sent(c)[k] = k

\* C3 (amended): what a subscriber was sent is a gapless segment of the runner's
\* output that starts with the first message produced after its registration.
C3_DeliveredIsSegmentSinceRegistration ==
    \A c \in Chans : \A k \in 1..Len(Sent(c)) : Sent(c)[k] = chan[c].regAt + k

C3_Witness ==
    \E c \in Chans : chan[c].regAt >= 1 /\ Len(chan[c].received) >= 1

\* C4: a failed send removes exactly that subscriber at the end of the round
\* and is no error of the runner; every other registered subscriber gets
\* exactly one copy of the message; nothing is ever sent to a channel that is
\* not registered.
C4_FailedSendRemovesOnlyThatSubscriber ==
    [][/\ SendStep =>
            LET id == Head(roundOrder)
                failed == chan[subscriptions[id]].closed
                gone == to_remove \cup (IF failed THEN {id} ELSE {})
            IN  /\ result' = result /\ pc' # "done"
                /\ failed => chan' = chan
                /\ pc' = "fanout" => to_remove' = gone /\ subscriptions' = subscriptions
                /\ pc' # "fanout" =>
                      /\ DOMAIN subscriptions' = DOMAIN subscriptions \ gone
                      /\ \A i \in DOMAIN subscriptions' :
                            /\ subscriptions'[i] = subscriptions[i]
                            /\ Count(produced, SentNext(subscriptions[i])) = 1
                      /\ \A i \in gone : Count(produced, SentNext(subscriptions[i])) = 0
       /\ \A c \in Chans : SentNext(c) # Sent(c) => Registered(c)
      ]_vars

C4_Witness ==
    /\ pc = "select"
    /\ nextChan = 3
    /\ control = <<>>
    /\ Cardinality(DOMAIN subscriptions) = 1
    /\ produced >= 1
    /\ \A i \in DOMAIN subscriptions : Count(produced, Sent(subscriptions[i])) = 1

\* C5: a slow subscriber blocks only itself: while the fan-out waits for it,
\* no other subscriber is waiting for the message behind it, no control
\* message and no stream item is held up.
C5_SlowSubscriberBlocksOnlyItself ==
    (pc = "fanout" /\ roundOrder # <<>> /\ Slow(subscriptions[Head(roundOrder)])) =>
        /\ \A k \in 2..Len(roundOrder) : Slow(subscriptions[roundOrder[k]])
        /\ control = <<>>
        /\ ~streamReady

\* C6: when a control message and a stream item are both ready at the select,
\* the stream item is not the one taken.
C6_ControlWinsTheRace ==
    [][(pc = "select" /\ control # <<>> /\ streamReady) => streamTaken' = streamTaken]_vars

\* C7: a handled Stop makes the task return Ok(()); the task returns Ok only
\* from the select, with no stream item in flight, and handles no stream item
\* afterwards.
C7_StopIsCleanAndNeverInterrupts ==
    [][/\ (Len(control') < Len(control) /\ Head(control) = StopMsg) =>
              pc' = "done" /\ result' = "Ok"
       /\ (result # "Ok" /\ result' = "Ok") =>
              ~InFlight /\ roundOrder = <<>> /\ ret = "-"
              /\ control # <<>> /\ Head(control) = StopMsg
       /\ InFlight => result' # "Ok"
       /\ result = "Ok" =>
              /\ pc' = "done" /\ result' = "Ok"
              /\ streamTaken' = streamTaken /\ produced' = produced
              /\ \A c \in Chans : SentNext(c) = Sent(c)
      ]_vars

C7_Witness ==
    result = "Ok" /\ produced >= 1 /\ streamReady

\* C8: stream end, an error item and an error returned by a handler each end
\* the task with that error; no message is sent for the failing item and no
\* stream item is handled afterwards.
C8_ErrorsTerminateTheRunner ==
    [][/\ (streamTaken' = streamTaken + 1 /\ inflight'.type \in {"End", "Err"}) =>
              /\ pc' = "done" /\ result' = "SubstreamsError"
              /\ produced' = produced /\ chan' = chan
       /\ (pc = "matching" /\ pc' # "matching" /\ ret \notin {"Some", "None"}) =>
              /\ pc' = "done" /\ result' = ret
              /\ produced' = produced /\ chan' = chan /\ roundOrder' = <<>>
       /\ (pc = "done" /\ result # "Ok") =>
              /\ pc' = "done" /\ result' = result
              /\ streamTaken' = streamTaken /\ produced' = produced
              /\ \A c \in Chans : SentNext(c) = Sent(c)
      ]_vars

C8_Witness ==
    /\ pc = "done"
    /\ result = "StorageError"
    /\ streamReady
    /\ \E i \in DOMAIN subscriptions : ~chan[subscriptions[i]].closed

\* C9: construction reads the cursor once; NotFound gives the empty cursor,
\* Ok(c) gives c, any other error gives Setup without ensure_protocol_types;
\* on success last_processed_block is None and ensure_protocol_types was
\* called once.
C9_Construction ==
    [][/\ (ext = "new" /\ ext' # "new") =>
            LET ans == lastOp'.input
            IN  /\ calls'.get_cursor = 1
                /\ ans.tag = "NotFound" => ext' = "ready" /\ cursor' = EmptyCursor
                /\ ans.tag = "Ok" => ext' = "ready" /\ cursor' = ans.cursor
                /\ ans.tag \notin {"NotFound", "Ok"} =>
                      ext' = "setup_error" /\ lastOp'.ret = "Setup"
                /\ ext' = "ready" =>
                      last_processed_block' = NoBlock /\ calls'.ensure_protocol_types = 1
                /\ ext' = "setup_error" => calls'.ensure_protocol_types = 0
       /\ ext # "new" =>
            /\ calls'.get_cursor = calls.get_cursor
            /\ calls'.ensure_protocol_types = calls.ensure_protocol_types
      ]_vars

C9_Witness ==
    /\ lastOp.op = "new"
    /\ lastOp.input.tag = "Ok"
    /\ cursor = lastOp.input.cursor
    /\ calls.get_cursor = 1
    /\ calls.ensure_protocol_types = 1

\* C10: on an Empty payload handle_tick_scoped_data returns Ok(None), sets
\* the cursor to the payload's cursor, does not call the forward write and
\* leaves last_processed_block unchanged.
C10_EmptyPayload ==
    [][(streamTaken' = streamTaken + 1 /\ lastOp'.op = "tick"
            /\ lastOp'.input.kind = "empty") =>
          /\ lastOp'.ret = "None"
          /\ ext' = "ready"
          /\ cursor' = lastOp'.input.cursor
          /\ calls'.forward = calls.forward
          /\ calls'.revert = calls.revert
          /\ last_processed_block' = last_processed_block
      ]_vars

C10_Witness ==
    /\ lastOp.op = "tick"
    /\ lastOp.input.kind = "empty"
    /\ cursor = lastOp.input.cursor
    /\ last_processed_block # NoBlock
    /\ cursor # EmptyCursor

\* the step is a call of handle_tick_scoped_data / of handle_revert
TickStep == streamTaken' = streamTaken + 1 /\ lastOp'.op = "tick"
RevertStep == streamTaken' = streamTaken + 1 /\ lastOp'.op = "revert"

\* C11: a non-empty Forward that succeeds has called the gateway's forward
\* write once with the payload's cursor, leaves last_processed_block at the
\* payload's block and the cursor at the payload's cursor, and returns Some.
C11_SuccessfulForward ==
    [][(TickStep /\ lastOp'.input.kind # "empty" /\ ext' = "ready") =>
          /\ lastOp'.ret = "Some"
          /\ calls'.forward = calls.forward + 1
          /\ lastOp'.call.method = "forward"
          /\ lastOp'.call.cursor = lastOp'.input.cursor
          /\ last_processed_block' = lastOp'.input.block
          /\ cursor' = lastOp'.input.cursor
      ]_vars

C11_Witness ==
    /\ lastOp.op = "tick"
    /\ lastOp.ret = "Some"
    /\ calls.forward = 2
    /\ last_processed_block = lastOp.input.block
    /\ cursor = lastOp.input.cursor
    /\ lastOp.input.block = 2

\* C12 (as stated): without a last_processed_block handle_revert answers any
\* undo signal with Ok(None), without calling gateway.revert and without
\* touching the cursor.
C12_AnyUndoIgnoredWithoutBlock ==
    [][(RevertStep /\ last_processed_block = NoBlock) =>
          /\ lastOp'.ret = "None"
          /\ calls'.revert = calls.revert
          /\ cursor' = cursor
      ]_vars

\* C12 (amended): without a last_processed_block handle_revert never calls
\* gateway.revert and never touches the cursor; it returns Ok(None) exactly
\* for the signals that carry a block reference whose id parses as a hash,
\* and fails on the others.
C12_WellFormedUndoIgnoredWithoutBlock ==
    [][(RevertStep /\ last_processed_block = NoBlock) =>
          /\ calls'.revert = calls.revert
          /\ lastOp'.call = NoCall
          /\ cursor' = cursor
          /\ persisted' = persisted
          /\ lastOp'.input.kind = "ok" => lastOp'.ret = "None" /\ ext' = "ready"
          /\ lastOp'.input.kind # "ok" => lastOp'.ret \notin {"Some", "None"} /\ ext' = "failed"
      ]_vars

C12_Witness ==
    /\ lastOp.op = "revert"
    /\ lastOp.input.kind = "ok"
    /\ lastOp.ret = "None"
    /\ last_processed_block = NoBlock
    /\ cursor # EmptyCursor
    /\ cursor # lastOp.input.cursor
    /\ calls.revert = 0

\* C13: with a last_processed_block, handle_revert on a well-formed signal
\* calls gateway.revert once with current = the hash of last_processed_block,
\* to = the hash of last_valid_block and new_cursor = last_valid_cursor; the
\* cursor becomes last_valid_cursor when the call succeeds and stays otherwise.
C13_RevertCallsGatewayOnce ==
    [][(RevertStep /\ last_processed_block # NoBlock /\ lastOp'.input.kind = "ok") =>
          /\ calls'.revert = calls.revert + 1
          /\ lastOp'.call = [method |-> "revert",
                             current |-> last_processed_block,
                             block |-> lastOp'.input.block,
                             cursor |-> lastOp'.input.cursor]
          /\ ext' = "ready" => cursor' = lastOp'.input.cursor
          /\ ext' # "ready" => cursor' = cursor
      ]_vars

C13_Witness ==
    /\ lastOp.op = "revert"
    /\ lastOp.call.method = "revert"
    /\ lastOp.call.current = 2
    /\ lastOp.call.block = 1
    /\ ext = "ready"
    /\ cursor = lastOp.input.cursor
    /\ calls.revert = 1

\* C14: handle_revert returns Some(delta) exactly when the delta the gateway
\* returned carries any change: account or state updates, or component
\* balances.
C14_ReturnsDeltaIffNonEmpty ==
    [][(RevertStep /\ lastOp'.call.method = "revert" /\ ext' = "ready") =>
          (lastOp'.ret = "Some" <=> (lastOp'.delta.updates \/ lastOp'.delta.balances))
      ]_vars

\* C15: the cursor the gateway holds never goes back, except in the step of
\* a Revert, which sets it to last_valid_cursor.
C15_PersistedCursorMonotoneExceptRevert ==
    [][\/ persisted' >= persisted
       \/ RevertStep /\ persisted' = lastOp'.input.cursor
      ]_vars

\* C16: stream items are handled in the order they were taken, their gateway
\* writes and their messages follow that order, and a message is emitted
\* (numbered, sent to any subscriber) only for an item whose gateway write
\* returned Ok; while a message is being emitted no later item has been
\* handed to the gateway.
C16_UpstreamPersistenceEmissionOrder ==
    /\ \A j, k \in 1..Len(journal) : j < k =>
          /\ journal[j].item < journal[k].item
          /\ (journal[j].msg # 0 /\ journal[k].msg # 0) => journal[j].msg < journal[k].msg
    /\ \A k \in 1..Len(journal) : journal[k].msg # 0 => journal[k].write = "Ok"
    /\ \A c \in Chans : \A n \in 1..Len(Sent(c)) :
          \E k \in 1..Len(journal) :
              journal[k].msg = Sent(c)[n] /\ journal[k].write = "Ok"
    /\ pc \in {"matching", "fanout"} => journal[Len(journal)].item = streamTaken
    /\ pc = "fanout" => journal[Len(journal)].msg = produced

C16_Witness ==
    /\ Len(journal) = 2
    /\ journal[1].msg = 1
    /\ journal[2].msg = 2
    /\ calls.forward = 1
    /\ calls.revert = 1
    /\ \E c \in Chans : chan[c].received = <<1, 2>>

\* the step is a call of the named gateway method
GwStep(op) == gwOp'.n = gwOp.n + 1 /\ gwOp'.op = op
GwRevertStep == GwStep("revert") \/ GwStep("backward")
\* no row written by a block after `to` is in the store
NothingAfter(st, to) == \A r \in StateRows : r.tx[1] > to => st.states[r] = 0

\* C17: delivering the Forward that was just persisted a second time succeeds
\* and leaves the store as it was.
C17_RedeliveryIsIdempotent ==
    [][(GwStep("forward") /\ gwOp.op = "forward" /\ gwOp.ret = "Ok"
            /\ gwOp'.changes = gwOp.changes) =>
          gwOp'.ret = "Ok" /\ store' = store
      ]_vars

\* C18: a revert to a stored block returns the inverse delta and leaves the
\* store with the cursor at last_valid_cursor and with no change of a
\* reverted block.
C18_RevertIsAtomicInverse ==
    [][(GwRevertStep /\ gwOp'.to \in store.blocks) =>
          /\ gwOp'.ret = "Ok"
          /\ store'.cursor = gwOp'.cursor
          /\ NothingAfter(store', gwOp'.to)
      ]_vars

\* C19: after forwards and a revert to one of the forwarded blocks, with the
\* cursor of that block, the store is what the forward of that block left.
C19_ForwardRevertRoundTrip ==
    [][(GwRevertStep /\ gwOp'.to \in DOMAIN snaps
            /\ gwOp'.cursor = snaps[gwOp'.to].cursor) =>
          store' = snaps[gwOp'.to]
      ]_vars

\* C20: a forward that succeeds has written state deltas only for components
\* that were stored before the block or are created by the same or an
\* earlier transaction of the block.
C20_DeltasOnlyForKnownComponents ==
    [][(GwStep("forward") /\ gwOp'.ret = "Ok") =>
          \A i \in 1..MaxTx : \A c \in gwOp'.changes.txs[i].deltas :
              \/ c \in store.components
              \/ \E j \in 1..i : c \in gwOp'.changes.txs[j].creates
      ]_vars

\* ------------------------------------------------ forward as storage operations
Idx(op) == {i \in DOMAIN adv.ops : adv.ops[i].op = op}
Elems(seq) == {seq[i] : i \in DOMAIN seq}
\* the call returned Ok: another call follows it, or forward returned Ok
Succeeded(i) == i < Len(adv.ops) \/ adv.ret = "Ok"

\* C21: in the forward of both gateways, every token address that a new
\* component references and the storage does not hold is given to the
\* token pre-processor and then inserted with add_tokens before the
\* add_protocol_components call that inserts a component referencing it.
C21_TokensInsertedBeforeComponents ==
    \A j \in Idx("add_protocol_components") :
      \A t \in adv.ops[j].toks \ adv.known :
        \E i \in Idx("pre_processor"), k \in Idx("add_tokens") :
          /\ i < k
          /\ k < j
          /\ t \in Elems(adv.ops[i].seq)
          /\ t \in adv.ops[k].toks

\* an ambient forward whose second transaction creates a component with a
\* token the storage did not hold
C21_Witness ==
    /\ adv.op = "ambient"
    /\ adv.ret = "Ok"
    /\ \E j \in Idx("add_protocol_components") :
         /\ adv.ops[j].tx > 1
         /\ adv.ops[j].toks \ adv.known # {}

\* C22: get_new_tokens returns exactly the referenced tokens the storage
\* does not hold, each once; the pre-processor is called with that Vec
\* only, and not at all when it is empty.
C22_NewTokensAreTheUnknownReferenced ==
    LET referenced == ReferencedTokens(adv.changes)
        unknown == referenced \ adv.known
    IN  \A g \in Idx("get_tokens") :
          /\ adv.ops[g].toks = referenced
          /\ Succeeded(g) =>
               /\ Elems(adv.new) = unknown
               /\ Len(adv.new) = Cardinality(unknown)
               /\ unknown = {} => Idx("pre_processor") = {}
               /\ unknown # {} => Idx("pre_processor") = {g + 1}
               /\ \A i \in Idx("pre_processor") : adv.ops[i].seq = adv.new

\* two components share a token, one token is stored and one is not
C22_Witness ==
    /\ adv.op # "none"
    /\ \E i, j \in DOMAIN adv.changes.txs :
         /\ i # j
         /\ TokensOf(adv.changes.txs[i].comps) \cap TokensOf(adv.changes.txs[j].comps) # {}
    /\ ReferencedTokens(adv.changes) \cap adv.known # {}
    /\ Len(adv.new) = 1
    /\ Idx("pre_processor") # {}

\* C27: forward opens one transaction before its first write and commits
\* it once, after its last write, with batch size sync_batch_size when
\* syncing and 0 otherwise; a forward that returns Ok has committed.
C27_OneTransactionPerForward ==
    adv.op # "none" =>
      /\ Idx("start_transaction") = {1}
      /\ Cardinality(Idx("commit_transaction")) <= 1
      /\ \A c \in Idx("commit_transaction") :
           /\ c = Len(adv.ops)
           /\ adv.ops[c].batch = IF adv.syncing THEN syncBatch ELSE 0
      /\ adv.ret = "Ok" => Idx("commit_transaction") # {}

\* a forward committed while syncing with a batch size above 0
C27_Witness ==
    /\ adv.ret = "Ok"
    /\ adv.syncing
    /\ syncBatch > 0
    /\ \E c \in Idx("commit_transaction") : adv.ops[c].batch = syncBatch

\* place of a storage operation in the sequence block, transactions,
\* tokens, components, state / account deltas, balances (0: not in it)
Rank(op) ==
    CASE op = "upsert_block" -> 1
      [] op = "upsert_tx" -> 2
      [] op = "add_tokens" -> 3
      [] op = "add_protocol_components" -> 4
      [] op \in {"update_protocol_states", "update_contracts"} -> 5
      [] op = "add_component_balances" -> 6
      [] OTHER -> 0

\* C28: in both gateways the storage operations of a forward are issued in
\* the sequence block, transactions in index order, tokens, components,
\* state / account deltas, balances.
C28_FixedOperationSequence ==
    \A i, j \in DOMAIN adv.ops :
      (i < j /\ Rank(adv.ops[i].op) # 0 /\ Rank(adv.ops[j].op) # 0) =>
        /\ Rank(adv.ops[i].op) <= Rank(adv.ops[j].op)
        /\ (adv.ops[i].op = "upsert_tx" /\ adv.ops[j].op = "upsert_tx")
             => adv.ops[i].tx < adv.ops[j].tx

\* ------------------------------------------------------- batched commits
CommitStep == cache'.n = cache.n + 1

Last(S) == IF S = {} THEN 0 ELSE CHOOSE i \in S : \A j \in S : j <= i
LastWrite(seq, a, k) ==
    Last({i \in DOMAIN seq : seq[i].addr = a /\ k \in DOMAIN seq[i].slots})
LastDelete(seq, a, k) ==
    Last({i \in DOMAIN seq : seq[i].addr = a /\ k \in seq[i].deleted})

\* C24: the message emitted holds one entry per address / component of
\* tx_updates; an entry holds a key exactly when the key's last write is
\* not followed by a deletion of it, with the value of that last write;
\* an entry whose first update is a Creation is a Creation.
C24_AggregationFoldsLeftToRight ==
    agg.op = "done" =>
      LET seq == agg.updates
      IN  /\ DOMAIN agg.out = {seq[i].addr : i \in DOMAIN seq}
          /\ \A a \in DOMAIN agg.out :
               /\ \A k \in Keys :
                    LET w == LastWrite(seq, a, k)
                    IN  IF w > LastDelete(seq, a, k)
                        THEN /\ k \in DOMAIN agg.out[a].slots
                             /\ agg.out[a].slots[k] = seq[w].slots[k]
                        ELSE k \notin DOMAIN agg.out[a].slots
               /\ (\E i \in DOMAIN seq : seq[i].addr = a /\ seq[i].change = "Creation")
                    => agg.out[a].change = "Creation"

\* a Creation that writes a key, then an Update of the same address that
\* overwrites it
C24_Witness ==
    /\ agg.op = "done"
    /\ \E a \in DOMAIN agg.out, k \in Keys :
         /\ agg.updates[1].addr = a
         /\ agg.updates[1].change = "Creation"
         /\ k \in DOMAIN agg.updates[1].slots
         /\ LastWrite(agg.updates, a, k) > 1
         /\ agg.out[a].slots[k] # agg.updates[1].slots[k]
         /\ agg.out[a].change = "Creation"

\* ------------------------------------------------------ block synchronizer
SyncStep == sync'.n = sync.n + 1

\* C25: a stream that misses its second consecutive deadline is Stale after
\* the tick; a Stale stream stays Stale, without payload, through every tick
\* in which it produces no message at or ahead of the expected height, and
\* is Ready again in the tick in which it does; every tick emits the
\* FeedMessage of its height, with each Stale stream marked Stale.
C25_StaleAfterTwoMissesUntilRecovery ==
    [][SyncStep =>
         /\ sync'.feed.block = sync.height
         /\ \A id \in Streams :
              LET st == sync.streams[id]
                  o == sync'.last[id]
              IN  /\ (st.status = "Delayed" /\ st.misses = StaleAfter - 1 /\ o = "silent")
                       => sync'.streams[id].status = "Stale"
                  /\ (st.status = "Stale" /\ o \in {"silent", "behind"})
                       => sync'.streams[id].status = "Stale"
                  /\ (st.status = "Stale" /\ o = "message")
                       => sync'.streams[id].status = "Ready"
                  /\ (sync'.streams[id].status = "Stale")
                       => sync'.feed.by_extractor[id] = [status |-> "Stale", payload |-> FALSE]
                  /\ (sync'.streams[id].status = "Stale" /\ st.status # "Stale")
                       => (st.misses = StaleAfter - 1 /\ o = "silent")]_vars

\* one stream has just missed its second deadline in a row while the other
\* reported: the feed message carries one Stale and one Ready entry
C25_Witness ==
    /\ sync.op = "tick"
    /\ \E id, other \in Streams :
         /\ sync.streams[id].status = "Stale"
         /\ sync.last[id] = "silent"
         /\ sync.feed.by_extractor[id].status = "Stale"
         /\ sync.feed.by_extractor[other] = [status |-> "Ready", payload |-> TRUE]
         /\ sync.feed.block = sync.height - 1

\* ------------------------------------- handle_tick_scoped_data, lock by lock
\* a forward has computed is_syncing for its block
Classified == tk.pc # "idle" \/ tk.ret = "Some"

\* C26: is_syncing(block_number) is true exactly when the head is above
\* block_number by more than 5; when the head is at or below block_number
\* it is false and the subtraction is not evaluated.
C26_SyncingIffMoreThanFiveBehind ==
    Classified =>
      /\ tk.syncing <=> (tk.head > tk.number /\ tk.head - tk.number > 5)
      /\ tk.head <= tk.number => (~tk.syncing /\ ~tk.subtracted)

\* blocks classified on both sides of each boundary
C26_Witness ==
    /\ Classified
    /\ tk.syncing
    /\ tk.head - tk.number = 6
    /\ tk.n = 1

\* C29: with a post-processor, in both flavours the message given to the
\* gateway and the message returned are both post-processed.
C29_PostProcessedBeforeWrite ==
    (tk.ret = "Some" /\ tk.post) =>
      /\ tk.written = PostProcess(TRUE, Converted(tk.number))
      /\ tk.out.processed

\* C30: whoever takes the lock while a Forward is between its gateway call
\* and its return never finds last_processed_block at the Forward's block
\* with the cursor not yet at the Forward's cursor.
C30_ReaderSeesBlockAndCursorTogether ==
    (seen.at \in {"update_last_processed_block", "report_progress", "update_cursor"}) =>
      ~(/\ seen.last_processed_block = seen.forward.block
        /\ seen.cursor # seen.forward.cursor)

WritesUpTo(c, a, at) ==
    {i \in 1..Len(pg.hist) :
        /\ pg.hist[i].state.component_id = c
        /\ a \in DOMAIN pg.hist[i].state.updated_attributes
        /\ (at = Null \/ pg.hist[i].ts <= at)}
\* the values a result reports for an attribute of a component
Reported(out, c, a) ==
    {st.attributes[a] : st \in {x \in out : x.component_id = c /\ a \in DOMAIN x.attributes}}

\* C32: get_protocol_states at version v returns, for every attribute of a
\* component, the value of the row whose validity range contains v, that is
\* the value written last at or before v; with no version it returns the
\* value written last; a superseded value is never returned for a version
\* after it was superseded, and nothing is returned for an attribute not
\* written by then.
C32_VersionResolvesToContainingRow ==
    (pg.op = "states" /\ pg.last.op = "get") =>
        \A c \in pg.last.ids, a \in PgAttrs :
            LET W == WritesUpTo(c, a, pg.last.at)
            IN  Reported(pg.last.out, c, a) =
                    IF W = {} THEN {}
                    ELSE {pg.hist[Last(W)].state.updated_attributes[a]}
\* a query at a version before the second write of an attribute, answered with
\* the first value, while the current value is another
C32_Witness ==
    /\ pg.op = "states"
    /\ pg.last.op = "get"
    /\ pg.last.at # Null
    /\ \E c \in pg.last.ids, a \in PgAttrs :
         /\ WritesUpTo(c, a, pg.last.at) # {}
         /\ WritesUpTo(c, a, pg.last.at) # WritesUpTo(c, a, Null)
         /\ \E r \in pg.rows :
              /\ r.component = c /\ r.attr = a /\ r.valid_to # Null
              /\ r.valid_from <= pg.last.at /\ pg.last.at < r.valid_to
              /\ Reported(pg.last.out, c, a) = {r.value}
         /\ \E r \in pg.rows :
              /\ r.component = c /\ r.attr = a /\ r.valid_to = Null
              /\ r.value \notin Reported(pg.last.out, c, a)

C34_RevertKeepsLastProcessedBlock ==
    [][RevertStep =>
          /\ last_processed_block' = last_processed_block
          /\ (/\ lastOp.op = "revert"
              /\ lastOp.call # NoCall
              /\ lastOp.ret \in {"Some", "None"}
              /\ lastOp'.call # NoCall) =>
                 lastOp'.call.current = lastOp.call.current]_vars
\* a second Revert called the gateway, after one that succeeded, with the
\* block of the only Forward as current
C34_Witness ==
    /\ lastOp.op = "revert"
    /\ lastOp.call # NoCall
    /\ lastOp.ret \in {"Some", "None"}
    /\ calls.revert = 2
    /\ calls.forward = 1
    /\ lastOp.call.current = last_processed_block
    /\ lastOp.call.block # last_processed_block

\* C35: when the gateway write of a Forward or gateway.revert fails, the
\* handler returns the error and leaves the in-memory cursor and
\* last_processed_block as they were; a non-empty Forward or a Revert moves
\* the in-memory cursor only when its gateway call has returned Ok (the
\* gateway then holds the cursor too).
C35_FailedGatewayCallChangesNothing ==
    [][(TickStep \/ RevertStep) /\ lastOp'.call # NoCall =>
          /\ persisted' # lastOp'.input.cursor =>
                 /\ lastOp'.ret = "StorageError"
                 /\ ext' = "failed"
                 /\ cursor' = cursor
                 /\ last_processed_block' = last_processed_block
          /\ cursor' # cursor => persisted' = lastOp'.input.cursor]_vars
\* a Revert whose gateway call failed, after a Forward that had succeeded
C35_Witness ==
    /\ lastOp.op = "revert"
    /\ lastOp.call # NoCall
    /\ lastOp.ret = "StorageError"
    /\ ext = "failed"
    /\ cursor # lastOp.input.cursor
    /\ persisted = cursor
    /\ last_processed_block # NoBlock

\* C38: handle_revert validates the undo signal before it looks at
\* last_processed_block: a signal without last_valid_block, or whose block id
\* does not parse, yields a DecodeError, also on an extractor without
\* last_processed_block, and neither calls gateway.revert nor changes the
\* in-memory cursor.
C38_MalformedUndoIsDecodeError ==
    [][RevertStep /\ lastOp'.input.kind # "ok" =>
          /\ lastOp'.ret = "DecodeError"
          /\ lastOp'.call = NoCall
          /\ calls'.revert = calls.revert
          /\ cursor' = cursor]_vars

\* the storage operations that write data of the block
DataWrites ==
    {"add_tokens", "upsert_block", "upsert_tx", "add_protocol_components",
     "add_component_balances", "update_contracts", "update_protocol_states"}
\* every data write the block calls for has been issued
AllWritesIssued ==
    /\ Idx("upsert_block") # {}
    /\ Cardinality(Idx("upsert_tx")) = Len(adv.changes.txs)
    /\ (adv.new # <<>>) => Idx("add_tokens") # {}
    /\ (\E i \in DOMAIN adv.changes.txs : adv.changes.txs[i].comps # {}) =>
           Idx("add_protocol_components") # {}
    /\ (\E i \in DOMAIN adv.changes.txs : adv.changes.txs[i].balances) =>
           Idx("add_component_balances") # {}
    /\ adv.op = "ambient" => Idx("update_contracts") # {}
    /\ (adv.op = "native" /\ \E i \in DOMAIN adv.changes.txs : adv.changes.txs[i].delta) =>
           Idx("update_protocol_states") # {}

C40_ReportNeverUnderflows ==
    (rp.op = "report" /\ rp.emitted) =>
        /\ rp.number >= rp.reported_before
        /\ rp.current_block >= rp.number
        /\ rp.blocks_processed = rp.number - rp.reported_before
        /\ rp.distance_to_current = rp.current_block - rp.number

\* C36: under weak fairness of the runner's steps, once a Stop is in the
\* control channel the runner eventually terminates, also when a registered
\* subscriber never reads its channel and never closes its receiver.
C36_StopEventuallyTerminates ==
    (\E i \in DOMAIN control : control[i].type = "Stop") ~> (pc = "done")

\* C37: closing the control channel (every handle dropped, no Stop sent) does
\* not stop the runner: from then on the control arm takes no step, a ready
\* stream item can be taken at the select, and the task ends only with the
\* error of the stream or of a handler.
C37_ClosedControlDoesNotStop ==
    /\ []((~handlesAlive /\ control = <<>> /\ pc = "select" /\ streamReady) =>
              ENABLED RunnerTakeStream)
    /\ [][(~handlesAlive /\ control = <<>> /\ pc # "done") =>
              /\ ~handlesAlive' /\ control' = <<>>
              /\ pc' = "done" => result' \notin {"Ok", "running"}]_vars
\* the control channel is closed and empty while a round of the fan-out
\* sends a message to a registered subscriber
C37_Witness ==
    /\ ~handlesAlive
    /\ control = <<>>
    /\ pc = "fanout"
    /\ roundOrder # <<>>
    /\ produced >= 1
    /\ \E c \in Chans : Registered(c) /\ chan[c].buf # <<>>

====
